---- MODULE Spec2Model ----
(***************************************************************************)
(* Model of better-gemini-mcp: the Path Guard (pathValidator.ts), the      *)
(* Segmenter (responseChunker.ts), the Process Runner                      *)
(* (commandExecutor.ts), the Execution Orchestrator (geminiExecutor.ts)    *)
(* and the query tools that drive them.                                    *)
(*                                                                         *)
(* Strings are sequences of one-character strings, so that startsWith,     *)
(* includes, slice and lastIndexOf are computed and not assumed.           *)
(***************************************************************************)
EXTENDS Integers, Sequences, FiniteSets, TLC

VARIABLES
    vpInput,      \* validatePath: inputPath
    vpRoot,       \* validatePath: projectRoot
    vpResult,     \* validatePath: the PathValidationResult, or NoResult
    cpPrompt,     \* checkPromptPathsValid: prompt
    cpOnDisk,     \* whether fs.accessSync succeeds on the paths of the prompt
    cpCheck,      \* checkPromptPathsValid: the value returned, NoResult before the call
    crText,       \* chunkResponse: response
    crSizeKB,     \* chunkResponse: chunkSizeKB
    crChunks,     \* chunkResponse: the CachedChunk[] returned, <<>> before the call
    crPhase,      \* chunkResponse run step by step: idle, loop, returned
    crPosition,   \* chunkResponse: currentPosition
    crPushed,     \* chunkResponse: chunks, as pushed so far
    pc,           \* where the tool call stands: idle, enumerating, awaiting, done
    req,          \* the tool call: tool name and validated arguments
    geminiPrompt, \* executeGeminiCLI: prompt
    finalPrompt,  \* executeGeminiCLI: finalPrompt
    tier,         \* executeGeminiCLI: the loop index i
    lastError,    \* executeGeminiCLI: lastError (its message), NoError when null
    procs,        \* every child process spawned by executeCommand, in spawn order
    progress,     \* the onProgress calls in call order: the message, and how many
                  \* subprocesses had been spawned when it was delivered
    execResult,   \* how executeGeminiCLI ended: returned or threw
    toolResponse, \* what the tool's execute returned
    cache,        \* responseCache: the Map, as the set of its keyed entries
    now,          \* Date.now(), in clock ticks
    cleanupTimer, \* responseCache: cleanupScheduled, the interval's next due time, and
                  \* how many intervals are set and not cleared
    puts,         \* every cacheResponse call so far, in call order
    isProcessing,         \* index.ts: isProcessing
    currentOperationName, \* index.ts: currentOperationName
    latestOutput,         \* index.ts: latestOutput
    calls,        \* the tools/call requests: progressData, counters, notifications sent
    run,          \* one executeCommand call: its child, its closure variables, its promise
    env           \* process.env.RESPONSE_CHUNK_SIZE_KB, <<>> when unset

pathVars == <<vpInput, vpRoot, vpResult, cpPrompt, cpOnDisk, cpCheck>>
chunkVars == <<crText, crSizeKB, crChunks, crPhase, crPosition, crPushed>>
execVars == <<pc, req, geminiPrompt, finalPrompt, tier, lastError, procs, progress,
              execResult, toolResponse>>
cacheVars == <<cache, now, cleanupTimer, puts>>
serverVars == <<isProcessing, currentOperationName, latestOutput, calls>>
runnerVars == <<run>>
envVars == <<env>>

NoResult == [none |-> TRUE]

(***************************************************************************)
(* Bounds                                                                  *)
(***************************************************************************)
MaxPathLen == 5
MaxTextLen == 9
MaxSizeKB == 2
\* characters per "KB" of chunk size: the model's scale for the factor 1024
BytesPerKB == 4
\* the newline search window: the model's scale for the 500 characters
NewlineWindow == 3
MaxPromptLen == 3
MaxDirLen == 2
\* the last clock tick
MaxTime == 3
\* cacheResponse calls in one behaviour
MaxPuts == 2
\* clock ticks in DEFAULTS.CACHE_TTL_MS: the model's scale for 3 600 000 ms
TicksPerTTL == 2
\* clock ticks in CLEANUP_INTERVAL_MS: the model's scale for 300 000 ms
TicksPerSweep == 1
\* callbacks of one keepalive interval
MaxFires == 1
\* 'data' events of one stream of one child
MaxData == 2
\* longest prompt handed to checkPromptPathsValid on its own
MaxRefPromptLen == 5

(***************************************************************************)
(* String helpers (String.prototype)                                       *)
(***************************************************************************)
Strings(alphabet, maxLen) == UNION {[1..n -> alphabet] : n \in 0..maxLen}

startsWith(s, p) == Len(p) <= Len(s) /\ SubSeq(s, 1, Len(p)) = p

endsWith(s, p) == Len(p) <= Len(s) /\ SubSeq(s, Len(s) - Len(p) + 1, Len(s)) = p

includes(s, p) == \E k \in 0..(Len(s) - Len(p)) : SubSeq(s, k + 1, k + Len(p)) = p

\* s.slice(from, to) with 0-based, end-exclusive indices 0 <= from <= to
slice(s, from, to) ==
    LET t == IF to > Len(s) THEN Len(s) ELSE to
    IN  IF from >= t THEN <<>> ELSE SubSeq(s, from + 1, t)

RECURSIVE Concat(_)
Concat(ss) == IF ss = <<>> THEN <<>> ELSE Head(ss) \o Concat(Tail(ss))

(***************************************************************************)
(* node:path (POSIX)                                                       *)
(***************************************************************************)
sep == <<"/">>
Dot == <<".">>
DotDot == <<".", ".">>

\* process.cwd(): the directory relative paths fall back to in path.resolve
Cwd == <<"/", "a">>

RECURSIVE SplitSep(_)
SplitSep(s) ==
    IF \A k \in 1..Len(s) : s[k] # "/"
    THEN <<s>>
    ELSE LET k == CHOOSE j \in 1..Len(s) :
                      s[j] = "/" /\ \A m \in 1..(j - 1) : s[m] # "/"
         IN  <<SubSeq(s, 1, k - 1)>> \o SplitSep(SubSeq(s, k + 1, Len(s)))

RECURSIVE JoinSep(_)
JoinSep(segs) ==
    IF segs = <<>> THEN <<>>
    ELSE IF Len(segs) = 1 THEN segs[1]
    ELSE segs[1] \o sep \o JoinSep(Tail(segs))

RECURSIVE NormSegs(_, _, _)
NormSegs(segs, acc, allowAboveRoot) ==
    IF segs = <<>> THEN acc
    ELSE LET h == Head(segs)
             t == Tail(segs)
         IN  IF h = <<>> \/ h = Dot
             THEN NormSegs(t, acc, allowAboveRoot)
             ELSE IF h = DotDot
             THEN IF acc # <<>> /\ acc[Len(acc)] # DotDot
                  THEN NormSegs(t, SubSeq(acc, 1, Len(acc) - 1), allowAboveRoot)
                  ELSE IF allowAboveRoot
                  THEN NormSegs(t, Append(acc, h), allowAboveRoot)
                  ELSE NormSegs(t, acc, allowAboveRoot)
             ELSE NormSegs(t, Append(acc, h), allowAboveRoot)

\* resolves . and .. segments, drops empty ones; no leading or trailing slash
normalizeString(p, allowAboveRoot) ==
    JoinSep(NormSegs(SplitSep(p), <<>>, allowAboveRoot))

path_isAbsolute(p) == Len(p) > 0 /\ p[1] = "/"

path_normalize(p) ==
    IF Len(p) = 0 THEN Dot
    ELSE LET isAbs == path_isAbsolute(p)
             trailing == p[Len(p)] = "/"
             n0 == normalizeString(p, ~isAbs)
             n1 == IF Len(n0) = 0 /\ ~isAbs THEN Dot ELSE n0
             n2 == IF Len(n1) > 0 /\ trailing THEN n1 \o sep ELSE n1
         IN  IF isAbs THEN sep \o n2 ELSE n2

\* path.resolve(...ps): right to left until an absolute path is built,
\* empty arguments skipped, process.cwd() as the last resort
RECURSIVE ResolveFrom(_, _, _)
ResolveFrom(ps, k, acc) ==
    IF path_isAbsolute(acc) THEN acc
    ELSE IF k = 0 THEN Cwd \o sep \o acc
    ELSE IF Len(ps[k]) = 0 THEN ResolveFrom(ps, k - 1, acc)
    ELSE ResolveFrom(ps, k - 1, ps[k] \o sep \o acc)

path_resolve(ps) ==
    LET joined == ResolveFrom(ps, Len(ps), <<>>)
    IN  sep \o normalizeString(joined, FALSE)

(***************************************************************************)
(* pathValidator.ts                                                        *)
(***************************************************************************)
ReasonTraversal == "Path contains parent directory traversal (..)"
ReasonOutside == "Path is outside project root"
ReasonMissing == "Path does not exist"
NoReason == "undefined"

\* mutant: raw prefix comparison, without the trailing separator
isWithinProjectRoot_rawPrefix(absolutePath, projectRoot) ==
    LET normalizedPath == path_normalize(absolutePath)
        normalizedRoot == path_normalize(projectRoot)
    IN  normalizedPath = normalizedRoot \/ startsWith(normalizedPath, normalizedRoot)

isWithinProjectRoot(absolutePath, projectRoot) ==
    LET normalizedPath == path_normalize(absolutePath)
        normalizedRoot == path_normalize(projectRoot)
        rootWithSep == IF endsWith(normalizedRoot, sep)
                       THEN normalizedRoot
                       ELSE normalizedRoot \o sep
    IN  normalizedPath = normalizedRoot \/ startsWith(normalizedPath, rootWithSep)

\* mutant: every disallowed path is reported as outside the root
validatePath_outsideOnly(inputPath, projectRoot, onDisk) ==
    LET normalizedRoot == path_resolve(<<projectRoot>>)
        resolved0 == IF path_isAbsolute(inputPath)
                     THEN path_resolve(<<inputPath>>)
                     ELSE path_resolve(<<normalizedRoot, inputPath>>)
        resolved == path_normalize(resolved0)
        allowed == isWithinProjectRoot(resolved, normalizedRoot)
        exists == allowed /\ onDisk
    IN  [input |-> inputPath,
         resolved |-> resolved,
         exists |-> exists,
         allowed |-> allowed,
         reason |-> IF ~allowed THEN ReasonOutside
                    ELSE IF ~exists THEN ReasonMissing ELSE NoReason]

\* onDisk: whether fs.accessSync(resolved) succeeds
validatePath(inputPath, projectRoot, onDisk) ==
    LET normalizedRoot == path_resolve(<<projectRoot>>)
        resolved0 == IF path_isAbsolute(inputPath)
                     THEN path_resolve(<<inputPath>>)
                     ELSE path_resolve(<<normalizedRoot, inputPath>>)
        resolved == path_normalize(resolved0)
        allowed == isWithinProjectRoot(resolved, normalizedRoot)
        exists == allowed /\ onDisk
    IN  [input |-> inputPath,
         resolved |-> resolved,
         exists |-> exists,
         allowed |-> allowed,
         reason |-> IF ~allowed
                    THEN IF includes(inputPath, DotDot)
                         THEN ReasonTraversal
                         ELSE ReasonOutside
                    ELSE IF ~exists THEN ReasonMissing ELSE NoReason]

(***************************************************************************)
(* responseChunker.ts                                                      *)
(***************************************************************************)
NL == "\n"

Max(a, b) == IF a >= b THEN a ELSE b

\* s.lastIndexOf(c, fromIndex): 0-based index of the last c at or before
\* fromIndex, -1 when there is none
lastIndexOf(s, c, fromIndex) ==
    LET top == IF fromIndex >= Len(s) THEN Len(s) - 1 ELSE fromIndex
        hits == {j \in 0..top : s[j + 1] = c}
    IN  IF hits = {} THEN -1 ELSE CHOOSE j \in hits : \A m \in hits : m <= j

\* mutant: the slice stops one character short of the cut
chunkContent_short(response, currentPosition, endPosition) ==
    slice(response, currentPosition, endPosition - 1)

\* const chunkContent = response.slice(currentPosition, endPosition)
chunkContent(response, currentPosition, endPosition) ==
    slice(response, currentPosition, endPosition)

\* mutant: the segments are numbered from 0
pushedChunk_zeroBased(content, chunkIndex) ==
    [content |-> content, index |-> chunkIndex - 1, total |-> 0]

\* chunks.push({content: chunkContent, index: chunkIndex, total: 0})
pushedChunk(content, chunkIndex) ==
    [content |-> content, index |-> chunkIndex, total |-> 0]

\* mutant: any newline found before the cut is taken for the break point
cutEnd_anyNewline(response, chunkSizeBytes, currentPosition) ==
    LET endPosition == currentPosition + chunkSizeBytes
    IN  IF endPosition < Len(response)
        THEN LET lastNewline == lastIndexOf(response, NL, endPosition)
             IN  IF lastNewline # -1 THEN lastNewline + 1 ELSE endPosition
        ELSE Len(response)

\* the end of the chunk that starts at currentPosition
cutEnd(response, chunkSizeBytes, currentPosition) ==
    LET endPosition == currentPosition + chunkSizeBytes
    IN  IF endPosition < Len(response)
        THEN LET searchStart == Max(currentPosition, endPosition - NewlineWindow)
                 lastNewline == lastIndexOf(response, NL, endPosition)
             IN  IF lastNewline > searchStart THEN lastNewline + 1 ELSE endPosition
        ELSE Len(response)

RECURSIVE cutLoop(_, _, _, _, _)
cutLoop(response, chunkSizeBytes, currentPosition, chunkIndex, chunks) ==
    IF ~(currentPosition < Len(response)) THEN chunks
    ELSE LET endPosition == cutEnd(response, chunkSizeBytes, currentPosition)
         IN  cutLoop(response, chunkSizeBytes, endPosition, chunkIndex + 1,
                     Append(chunks,
                            pushedChunk(chunkContent(response, currentPosition, endPosition),
                                        chunkIndex)))

\* mutant: the single segment of a short text is numbered from 0
chunkResponse_zeroBased(response, chunkSizeKB) ==
    LET chunkSizeBytes == chunkSizeKB * BytesPerKB
    IN  IF Len(response) <= chunkSizeBytes
        THEN <<[content |-> response, index |-> 0, total |-> 1]>>
        ELSE LET chunks == cutLoop(response, chunkSizeBytes, 0, 1, <<>>)
                 totalChunks == Len(chunks)
             IN  [k \in 1..totalChunks |-> [chunks[k] EXCEPT !.total = totalChunks]]

chunkResponse(response, chunkSizeKB) ==
    LET chunkSizeBytes == chunkSizeKB * BytesPerKB
    IN  IF Len(response) <= chunkSizeBytes
        THEN <<[content |-> response, index |-> 1, total |-> 1]>>
        ELSE LET chunks == cutLoop(response, chunkSizeBytes, 0, 1, <<>>)
                 totalChunks == Len(chunks)
             IN  [k \in 1..totalChunks |-> [chunks[k] EXCEPT !.total = totalChunks]]

needsChunking(response, chunkSizeKB) ==
    Len(response) > chunkSizeKB * BytesPerKB

(***************************************************************************)
(* constants.ts                                                            *)
(***************************************************************************)
NULL == "null"

FLASH_DEFAULT == "gemini-3-flash-preview"
PRO_DEFAULT == "gemini-3-pro-preview"
FLASH_FALLBACK == "gemini-2.5-flash"
PRO_FALLBACK == "gemini-2.5-pro"
AUTO_SELECT == NULL

MODEL_TIERS ==
    [quick_query |-> [tier1 |-> FLASH_DEFAULT, tier2 |-> FLASH_FALLBACK, tier3 |-> AUTO_SELECT],
     deep_research |-> [tier1 |-> PRO_DEFAULT, tier2 |-> PRO_FALLBACK, tier3 |-> AUTO_SELECT],
     analyze_directory |-> [tier1 |-> FLASH_DEFAULT, tier2 |-> FLASH_FALLBACK, tier3 |-> AUTO_SELECT]]

FLAG_MODEL == <<"-m">>
FLAG_PROMPT == <<"-p">>
FLAG_YES == <<"-y">>
FLAG_OUTPUT_FORMAT == <<"--output-format">>
OUTPUT_FORMAT_JSON == <<"json">>

\* the fixed preamble, one token for its whole text
SYSTEM_PROMPT == <<"[SYSTEM_PROMPT]">>
PROMPT_SEPARATOR == <<"\n\n---\n\nUSER REQUEST:\n">>

FALLBACK_RETRY == "Retrying with fallback model..."
AUTO_SELECT_RETRY == "Retrying with auto-selected model..."

INVALID_ARGUMENT == "INVALID_ARGUMENT"
PATH_NOT_ALLOWED == "PATH_NOT_ALLOWED"
GEMINI_CLI_NOT_FOUND == "GEMINI_CLI_NOT_FOUND"
GEMINI_CLI_ERROR == "GEMINI_CLI_ERROR"
AUTH_MISSING == "AUTH_MISSING"
QUOTA_EXCEEDED == "QUOTA_EXCEEDED"

RESPONSE_CHUNK_SIZE_KB == 10

\* the digits of an environment value and what parseInt(envValue, 10) makes
\* of it: the number its leading digits spell, after an optional sign; NaN
\* when there is none
DigitValue == [ch \in {"0", "1", "2"} |-> CASE ch = "0" -> 0 [] ch = "1" -> 1 [] OTHER -> 2]
NaN == [isNaN |-> TRUE, value |-> 0]
Parsed(n) == [isNaN |-> FALSE, value |-> n]

RECURSIVE leadingDigits(_, _)
leadingDigits(s, acc) ==
    IF s # <<>> /\ Head(s) \in DOMAIN DigitValue
    THEN leadingDigits(Tail(s), 10 * acc + DigitValue[Head(s)])
    ELSE acc

parseInt(s) ==
    LET negative == s # <<>> /\ Head(s) = "-"
        digits == IF negative THEN Tail(s) ELSE s
    IN  IF digits = <<>> \/ Head(digits) \notin DOMAIN DigitValue THEN NaN
        ELSE IF negative THEN Parsed(0 - leadingDigits(digits, 0))
        ELSE Parsed(leadingDigits(digits, 0))

\* getChunkSizeKB, given process.env.RESPONSE_CHUNK_SIZE_KB
getChunkSizeKB(envValue) ==
    IF envValue # <<>>
    THEN LET parsed == parseInt(envValue)
         IN  IF ~parsed.isNaN /\ parsed.value > 0 THEN parsed.value
             ELSE RESPONSE_CHUNK_SIZE_KB
    ELSE RESPONSE_CHUNK_SIZE_KB

EnvUnset == env = <<>>
CACHE_TTL_MS == TicksPerTTL
CLEANUP_INTERVAL_MS == TicksPerSweep
CACHE_EXPIRED == "CACHE_EXPIRED"
INVALID_CHUNK_INDEX == "INVALID_CHUNK_INDEX"
INTERNAL == "INTERNAL"

(***************************************************************************)
(* responseCache.ts.  The Map is the set of its entries, each with its     *)
(* key; a key is the prefix, the timestamp and the random suffix.  An      *)
(* operation that reads the clock takes the time t, and one that can       *)
(* delete returns the cache it leaves with its value.                      *)
(***************************************************************************)
generateCacheKey(t, random) == <<"cache_", t, random>>

cacheAt(c, key) == {e \in c : e.key = key}

\* cache.set(key, entry)
cacheSet(c, key, entry) ==
    (c \ cacheAt(c, key))
        \cup {[key |-> key, chunks |-> entry.chunks, createdAt |-> entry.createdAt,
                expiresAt |-> entry.expiresAt]}

\* the key and the Map after cacheResponse(chunks, ttlMs)
cacheResponse(c, chunks, ttlMs, t, random) ==
    LET key == generateCacheKey(t, random)
        entry == [chunks |-> chunks, createdAt |-> t, expiresAt |-> t + ttlMs]
    IN  [key |-> key, cache |-> cacheSet(c, key, entry)]

\* Date.now() > entry.expiresAt
isExpired(entry, t) == t > entry.expiresAt

getResponse(c, key, t) ==
    IF cacheAt(c, key) = {}
    THEN [value |-> NoResult, cache |-> c]
    ELSE LET entry == CHOOSE e \in cacheAt(c, key) : TRUE
         IN  IF isExpired(entry, t)
             THEN [value |-> NoResult, cache |-> c \ {entry}]
             ELSE [value |-> entry, cache |-> c]

getChunk_noExpiry(c, key, chunkIndex, t) ==
    IF cacheAt(c, key) = {}
    THEN [value |-> NoResult, cache |-> c]
    ELSE LET entry == CHOOSE e \in cacheAt(c, key) : TRUE
         IN  IF chunkIndex < 1 \/ chunkIndex > Len(entry.chunks)
             THEN [value |-> NoResult, cache |-> c]
             ELSE [value |-> entry.chunks[chunkIndex], cache |-> c]

getChunk(c, key, chunkIndex, t) ==
    LET got == getResponse(c, key, t)
    IN  IF got.value = NoResult
        THEN got
        ELSE IF chunkIndex < 1 \/ chunkIndex > Len(got.value.chunks)
        THEN [value |-> NoResult, cache |-> got.cache]
        ELSE [value |-> got.value.chunks[chunkIndex], cache |-> got.cache]

getCacheMetadata(c, key, t) ==
    LET got == getResponse(c, key, t)
    IN  IF got.value = NoResult
        THEN got
        ELSE [value |-> [totalChunks |-> Len(got.value.chunks),
                         expiresAt |-> got.value.expiresAt,
                         createdAt |-> got.value.createdAt],
              cache |-> got.cache]

deleteCache(c, key) == [value |-> cacheAt(c, key) # {}, cache |-> c \ cacheAt(c, key)]

clearExpired_atExpiry(c, t) == {e \in c : ~(t >= e.expiresAt)}

\* clearExpired: what is left of the Map when every entry with
\* now > entry.expiresAt is deleted
clearExpired(c, t) == {e \in c : ~(t > e.expiresAt)}

clearAll(c) == {}

NoTimer == [active |-> FALSE, due |-> 0, timers |-> 0]

\* scheduleCleanup(): one interval, started unless one is scheduled
scheduleCleanup_unguarded(timer, t) ==
    [active |-> TRUE,
     due |-> IF timer.active THEN timer.due ELSE t + CLEANUP_INTERVAL_MS,
     timers |-> timer.timers + 1]

scheduleCleanup(timer, t) ==
    IF timer.active THEN timer
    ELSE [active |-> TRUE, due |-> t + CLEANUP_INTERVAL_MS, timers |-> timer.timers + 1]

\* the interval's callback: the sweep, then the stop when the Map is empty
cleanupTick_checkFirst(c, timer, t) ==
    LET swept == clearExpired(c, t)
    IN  [cache |-> swept,
         timer |-> IF c = {}
                   THEN [active |-> FALSE, due |-> 0, timers |-> timer.timers - 1]
                   ELSE [timer EXCEPT !.due = @ + CLEANUP_INTERVAL_MS]]

cleanupTick(c, timer, t) ==
    LET swept == clearExpired(c, t)
    IN  [cache |-> swept,
         timer |-> IF swept = {}
                   THEN [active |-> FALSE, due |-> 0, timers |-> timer.timers - 1]
                   ELSE [timer EXCEPT !.due = @ + CLEANUP_INTERVAL_MS]]

(***************************************************************************)
(* The Segment Store on its own: its exported operations, the sweep timer  *)
(* and the clock                                                           *)
(***************************************************************************)
CacheIdle ==
    /\ cache = {}
    /\ now = 0
    /\ cleanupTimer = NoTimer
    /\ puts = <<>>

\* texts of one segment and of two
BundleTexts == {<<"a", "a">>, [k \in 1..(BytesPerKB + 1) |-> "a"]}
Bundles == {chunkResponse(text, 1) : text \in BundleTexts}
\* the time-to-live a caller passes: a short one or the default
TTLs == {1, CACHE_TTL_MS}
\* the suffixes Math.random() yields
Randoms == {0, 1}

\* the keys handed out so far and one that never was
ReadKeys == {puts[j].key : j \in 1..Len(puts)} \cup {generateCacheKey(0, 2)}
ChunkIndexes == 0..3

\* a call of cacheResponse(chunks, ttlMs) at the current time
Store(chunks, ttlMs, random, by) ==
    LET put == cacheResponse(cache, chunks, ttlMs, now, random)
        entry == CHOOSE e \in cacheAt(put.cache, put.key) : TRUE
    IN  /\ cache' = put.cache
        /\ cleanupTimer' = scheduleCleanup(cleanupTimer, now)
        /\ puts' = Append(puts, [key |-> put.key, chunks |-> entry.chunks,
                                  createdAt |-> entry.createdAt,
                                  expiresAt |-> entry.expiresAt,
                                  by |-> by, deleted |-> FALSE])
        /\ UNCHANGED now

\* a read leaves the Map that comes with its value
Read(got) ==
    /\ cache' = got.cache
    /\ UNCHANGED <<now, cleanupTimer, puts>>

MarkDeleted(keys) ==
    [j \in 1..Len(puts) |->
        IF puts[j].key \in keys THEN [puts[j] EXCEPT !.deleted = TRUE] ELSE puts[j]]

DoCacheResponse(chunks, ttlMs, random) ==
    /\ Len(puts) < MaxPuts
    /\ Store(chunks, ttlMs, random, "caller")
    /\ UNCHANGED <<pathVars, chunkVars, serverVars, runnerVars, envVars, execVars>>

DoGetResponse(key) ==
    /\ Read(getResponse(cache, key, now))
    /\ UNCHANGED <<pathVars, chunkVars, serverVars, runnerVars, envVars, execVars>>

DoGetChunk(key, chunkIndex) ==
    /\ Read(getChunk(cache, key, chunkIndex, now))
    /\ UNCHANGED <<pathVars, chunkVars, serverVars, runnerVars, envVars, execVars>>

DoGetCacheMetadata(key) ==
    /\ Read(getCacheMetadata(cache, key, now))
    /\ UNCHANGED <<pathVars, chunkVars, serverVars, runnerVars, envVars, execVars>>

DoDeleteCache(key) ==
    /\ cache' = deleteCache(cache, key).cache
    /\ puts' = MarkDeleted({key})
    /\ UNCHANGED <<now, cleanupTimer, pathVars, chunkVars, serverVars, runnerVars, envVars, execVars>>

DoClearExpired ==
    /\ cache' = clearExpired(cache, now)
    /\ UNCHANGED <<now, cleanupTimer, puts, pathVars, chunkVars, serverVars, runnerVars, envVars, execVars>>

DoClearAll ==
    /\ cache' = clearAll(cache)
    /\ puts' = MarkDeleted({e.key : e \in cache})
    /\ UNCHANGED <<now, cleanupTimer, pathVars, chunkVars, serverVars, runnerVars, envVars, execVars>>

\* mutant: the interval fires without sweeping
CleanupTick_noSweep ==
    /\ cleanupTimer.active
    /\ now >= cleanupTimer.due
    /\ cleanupTimer' = [cleanupTimer EXCEPT !.due = @ + CLEANUP_INTERVAL_MS]
    /\ UNCHANGED <<cache, now, puts, pathVars, chunkVars, serverVars, runnerVars, envVars, execVars>>

\* the sweep interval fires
CleanupTick ==
    /\ cleanupTimer.active
    /\ now >= cleanupTimer.due
    /\ cache' = cleanupTick(cache, cleanupTimer, now).cache
    /\ cleanupTimer' = cleanupTick(cache, cleanupTimer, now).timer
    /\ UNCHANGED <<now, puts, pathVars, chunkVars, serverVars, runnerVars, envVars, execVars>>

\* the clock is read only for stored bundles and for the sweep timer
TimeObserved == cache # {} \/ cleanupTimer.active \/ run.state = "running"

\* one clock tick passes; a due interval fires first
Tick ==
    /\ now < MaxTime
    /\ TimeObserved
    /\ cleanupTimer.active => now < cleanupTimer.due
    /\ now' = now + 1
    /\ UNCHANGED <<cache, cleanupTimer, puts, pathVars, chunkVars, serverVars, runnerVars, envVars, execVars>>

(***************************************************************************)
(* Messages are sequences of words; toLowerCase maps word by word and      *)
(* includes looks for a run of words.                                      *)
(***************************************************************************)
LowerWord(w) ==
    CASE w = "Quota" -> "quota"
      [] w = "RESOURCE_EXHAUSTED" -> "resource_exhausted"
      [] w = "Too" -> "too"
      [] w = "Many" -> "many"
      [] w = "Requests" -> "requests"
      [] w = "Command" -> "command"
      [] w = "Failed" -> "failed"
      [] w = "Unknown" -> "unknown"
      [] w = "ENOENT" -> "enoent"
      [] w = "Bearer" -> "bearer"
      [] OTHER -> w

toLowerCase(msg) == [k \in 1..Len(msg) |-> LowerWord(msg[k])]

Whitespace == {" ", NL}

RECURSIVE trimStart(_)
trimStart(s) ==
    IF s # <<>> /\ Head(s) \in Whitespace THEN trimStart(Tail(s)) ELSE s

RECURSIVE trimEnd(_)
trimEnd(s) ==
    IF s # <<>> /\ s[Len(s)] \in Whitespace THEN trimEnd(SubSeq(s, 1, Len(s) - 1)) ELSE s

trim(s) == trimEnd(trimStart(s))

(***************************************************************************)
(* pathValidator.ts: the batch form                                        *)
(***************************************************************************)
\* the characters of the class [\w./-] of AT_PATH_PATTERN
AtPathChars == {"a", "b", ".", "/", "-"}

RECURSIVE extractFrom(_, _, _)
extractFrom(prompt, pos, matches) ==
    IF pos > Len(prompt) THEN matches
    ELSE IF prompt[pos] = "@" /\ pos < Len(prompt) /\ prompt[pos + 1] \in AtPathChars
    THEN LET last == CHOOSE e \in (pos + 1)..Len(prompt) :
                        /\ \A m \in (pos + 1)..e : prompt[m] \in AtPathChars
                        /\ (e = Len(prompt) \/ prompt[e + 1] \notin AtPathChars)
         IN  extractFrom(prompt, last + 1, Append(matches, SubSeq(prompt, pos + 1, last)))
    ELSE extractFrom(prompt, pos + 1, matches)

extractAtPathReferences(prompt) == extractFrom(prompt, 1, <<>>)

\* mutant: the verdicts come back last reference first
validatePromptPaths_reversed(prompt, projectRoot, onDisk) ==
    LET paths == extractAtPathReferences(prompt)
    IN  [k \in 1..Len(paths) |->
            validatePath(paths[Len(paths) + 1 - k], projectRoot, onDisk)]

validatePromptPaths(prompt, projectRoot, onDisk) ==
    LET paths == extractAtPathReferences(prompt)
    IN  [k \in 1..Len(paths) |-> validatePath(paths[k], projectRoot, onDisk)]

\* mutant: only the references flagged as parent traversal count as invalid
checkPromptPathsValid_traversalOnly(prompt, projectRoot, onDisk) ==
    LET results == validatePromptPaths(prompt, projectRoot, onDisk)
        invalidPaths == SelectSeq(results, LAMBDA r : r.reason = ReasonTraversal)
    IN  [isValid |-> Len(invalidPaths) = 0, invalidPaths |-> invalidPaths]

checkPromptPathsValid(prompt, projectRoot, onDisk) ==
    LET results == validatePromptPaths(prompt, projectRoot, onDisk)
        invalidPaths == SelectSeq(results, LAMBDA r : ~r.allowed)
    IN  [isValid |-> Len(invalidPaths) = 0, invalidPaths |-> invalidPaths]

\* process.env.PROJECT_ROOT || process.cwd()
getProjectRoot == Cwd

(***************************************************************************)
(* geminiExecutor.ts                                                       *)
(***************************************************************************)
getModelTiers(toolName) ==
    LET config == MODEL_TIERS[toolName]
    IN  <<config.tier1, config.tier2, config.tier3>>

\* mutant: every failure is taken for a quota failure
isQuotaError_always(message) == TRUE

isQuotaError(message) ==
    LET m == toLowerCase(message)
    IN  \/ includes(m, <<"quota">>)
        \/ includes(m, <<"resource_exhausted">>)
        \/ includes(m, <<"rate", "limit">>)
        \/ includes(m, <<"capacity">>)
        \/ includes(m, <<"too", "many", "requests">>)
        \/ includes(m, <<"429">>)

buildGeminiArgs(prompt, model) ==
    (IF model # NULL THEN <<FLAG_MODEL, <<model>>>> ELSE <<>>)
        \o <<FLAG_YES>>
        \o <<FLAG_OUTPUT_FORMAT, OUTPUT_FORMAT_JSON>>
        \o <<FLAG_PROMPT, prompt>>

\* mutant: the preamble is left out
buildFinalPrompt_noPreamble(prompt) == PROMPT_SEPARATOR \o prompt

\* const finalPrompt = `${SYSTEM_PROMPT}\n\n---\n\nUSER REQUEST:\n${prompt}`
buildFinalPrompt(prompt) == SYSTEM_PROMPT \o PROMPT_SEPARATOR \o prompt

\* stdout of the engine: a JSON document with a response field, or plain text
parseGeminiOutput(output) ==
    IF output.kind = "json" THEN [text |-> output.body] ELSE [text |-> trim(output.body)]

\* mutant: the loop skips a tier
nextTier_skip(i) == i + 2

\* the i++ of the tier loop
nextTier(i) == i + 1

\* mutant: the model reported is that of the first tier
reportedModel_first(modelTiers, i) ==
    IF modelTiers[1] = NULL THEN "auto" ELSE modelTiers[1]

\* model: model ?? "auto"
reportedModel(modelTiers, i) ==
    IF modelTiers[i + 1] = NULL THEN "auto" ELSE modelTiers[i + 1]

(***************************************************************************)
(* commandExecutor.ts                                                      *)
(***************************************************************************)
Pending == [settled |-> "pending"]
NoError == <<>>

\* SENSITIVE_PATTERNS, by the word that opens a match, in lower case; the
\* word that follows it is the value the pattern takes in
SENSITIVE_PATTERNS == {"gemini_api_key=", "api_key=", "authorization:", "bearer", "token="}
REDACTED == "[REDACTED]"

\* sanitize(message): every match of a pattern becomes [REDACTED]
RECURSIVE sanitize(_)
sanitize(message) ==
    IF Len(message) < 2 THEN message
    ELSE IF LowerWord(message[1]) \in SENSITIVE_PATTERNS
    THEN <<REDACTED>> \o sanitize(SubSeq(message, 3, Len(message)))
    ELSE <<message[1]>> \o sanitize(Tail(message))

closeErrorMessage_noStderr(code, stderr) ==
    <<"Command", "failed", "with", "exit", "code", code>>

closeErrorMessage(code, stderr) ==
    LET sanitizedStderr == IF trim(stderr) = <<>> THEN <<"Unknown", "error">>
                           ELSE trim(stderr)
    IN  <<"Command", "failed", "with", "exit", "code", code>> \o sanitizedStderr

spawnErrorMessage(errorMessage) ==
    <<"Failed", "to", "spawn", "command", "'gemini':">> \o errorMessage

\* the child created by spawn(command, args): started, or failed to start
\* (an 'error' event is then pending)
spawnChild(i, args, started) ==
    [tier |-> i,
     args |-> args,
     state |-> IF started THEN "running" ELSE "spawnfailed",
     isResolved |-> FALSE,
     exitCode |-> "none",
     outcome |-> Pending]

(***************************************************************************)
(* quick-query.tool.ts, deep-research.tool.ts, analyze-directory.tool.ts   *)
(***************************************************************************)
\* the instruction texts, one token for each text
FOCUS_INSTRUCTIONS(focus) == <<"[FOCUS]", focus>>
STYLE_INSTRUCTIONS(style) == <<"[STYLE]", style>>
CITATION_INSTRUCTIONS(mode) == <<"[CITATION]", mode>>

promptMissing(prompt) == prompt = <<>> \/ Len(trim(prompt)) = 0

\* the error code chosen in the catch block of a tool's execute
classifyError(errorMessage) ==
    IF includes(errorMessage, <<"not", "found">>) \/ includes(errorMessage, <<"ENOENT">>)
    THEN GEMINI_CLI_NOT_FOUND
    ELSE IF includes(errorMessage, <<"auth">>) \/ includes(errorMessage, <<"login">>)
    THEN AUTH_MISSING
    ELSE IF includes(errorMessage, <<"quota">>)
    THEN QUOTA_EXCEEDED
    ELSE GEMINI_CLI_ERROR

errorResponse(code, message) ==
    [kind |-> "error", code |-> code, message |-> message]

\* the response built from a GeminiResponse by quick_query and deep_research
\* (cacheKey is the key cacheResponse returned for the chunked answer)
queryResponse(toolName, result, cacheKey) ==
    IF needsChunking(result.answer, RESPONSE_CHUNK_SIZE_KB)
    THEN LET chunked == chunkResponse(result.answer, RESPONSE_CHUNK_SIZE_KB)
         IN  [kind |-> "ok", tool |-> toolName, model |-> result.model,
              answer |-> chunked[1].content,
              chunks |-> [cacheKey |-> cacheKey, current |-> 1, total |-> Len(chunked)]]
    ELSE [kind |-> "ok", tool |-> toolName, model |-> result.model,
          answer |-> result.answer, chunks |-> NoResult]

analyzeResponse(result, fileCount) ==
    [kind |-> "ok", tool |-> "analyze_directory", fileCount |-> fileCount]

successResponse(toolName, result, cacheKey) ==
    IF toolName = "analyze_directory"
    THEN analyzeResponse(result, 1)
    ELSE queryResponse(toolName, result, cacheKey)

(***************************************************************************)
(* The tool call: one action for each turn of the event loop               *)
(***************************************************************************)
PromptAlphabet == {"@", ".", "/", " "}
Prompts == Strings(PromptAlphabet, MaxPromptLen)
DirAlphabet == {".", "/", "a"}
DirPaths == Strings(DirAlphabet, MaxDirLen)
FocusValues == {"general", "security"}
StyleValues == {"normal", "concise"}
CitationValues == {"none", "paths_only"}

\* what the engine writes to stdout when it exits with code 0
ShortAnswer == <<"o", "k">>
LongAnswer == [k \in 1..(RESPONSE_CHUNK_SIZE_KB * BytesPerKB + 2) |-> "a"]
Outputs ==
    {[kind |-> "text", body |-> ShortAnswer \o <<NL>>],
     [kind |-> "json", body |-> LongAnswer]}

\* what the engine writes to stderr when it exits with another code
Stderrs ==
    {<<>>,
     <<"quota", "exceeded">>,
     <<"RESOURCE_EXHAUSTED">>,
     <<"auth", "required">>,
     <<"Bearer", "s3cr3t">>}

CloseEvents ==
    {[code |-> "0", stdout |-> o, stderr |-> <<>>] : o \in Outputs}
        \cup {[code |-> "1", stdout |-> [kind |-> "text", body |-> <<>>], stderr |-> e] :
                e \in Stderrs}
        \cup {[code |-> "null", stdout |-> [kind |-> "text", body |-> <<>>], stderr |-> <<>>]}

\* the 'close' event that follows the 'error' event of a failed spawn
LateClose == [code |-> "-2", stdout |-> [kind |-> "text", body |-> <<>>], stderr |-> <<>>]

SpawnENOENT == <<"spawn", "gemini", "ENOENT">>

ExecIdle ==
    /\ pc = "idle"
    /\ req = NoResult
    /\ geminiPrompt = <<>>
    /\ finalPrompt = <<>>
    /\ tier = 0
    /\ lastError = NoError
    /\ procs = <<>>
    /\ progress = <<>>
    /\ execResult = NoResult
    /\ toolResponse = NoResult

fallbackNote_afterSpawn(i, log, spawned) ==
    IF i > 0
    THEN Append(log, [message |-> <<IF i = 1 THEN FALLBACK_RETRY ELSE AUTO_SELECT_RETRY, NL>>,
                      spawned |-> spawned + 1])
    ELSE log

\* if (i > 0) onProgress?.(message + "\n"), called when `spawned`
\* subprocesses have been started
fallbackNote(i, log, spawned) ==
    IF i > 0
    THEN Append(log, [message |-> <<IF i = 1 THEN FALLBACK_RETRY ELSE AUTO_SELECT_RETRY, NL>>,
                      spawned |-> spawned])
    ELSE log

\* the body of the tier loop up to the await: the fallback note, the
\* arguments, the spawn
StartAttempt(i, fp, toolName, started, prs) ==
    /\ tier' = i
    /\ progress' = fallbackNote(i, progress, Len(prs))
    /\ procs' = Append(prs, spawnChild(i, buildGeminiArgs(fp, getModelTiers(toolName)[i + 1]),
                                       started))
    /\ pc' = "awaiting"

\* executeGeminiCLI from its entry to the first await
ExecuteGeminiCLI(prompt, toolName, started) ==
    /\ geminiPrompt' = prompt
    /\ finalPrompt' = buildFinalPrompt(prompt)
    /\ lastError' = NoError
    /\ StartAttempt(0, buildFinalPrompt(prompt), toolName, started, procs)
    /\ UNCHANGED <<execResult, toolResponse>>

\* a tool returns an error object before any engine call
Reject(code, message) ==
    /\ toolResponse' = errorResponse(code, message)
    /\ pc' = "done"
    /\ UNCHANGED <<geminiPrompt, finalPrompt, tier, lastError, procs, progress, execResult>>

QueryTool(toolName, prompt, fullPrompt) ==
    /\ IF promptMissing(prompt)
       THEN Reject(INVALID_ARGUMENT, <<"Please", "provide", "a", "prompt">>)
       ELSE IF ~checkPromptPathsValid(prompt, getProjectRoot, FALSE).isValid
       THEN Reject(PATH_NOT_ALLOWED, <<"Invalid", "@path", "references", "in", "prompt">>)
       ELSE \E started \in BOOLEAN : ExecuteGeminiCLI(fullPrompt, toolName, started)
    /\ UNCHANGED <<pathVars, chunkVars, serverVars, runnerVars, envVars, cacheVars>>

QuickQuery(prompt, focus, responseStyle) ==
    LET withFocus == IF focus # "general"
                     THEN FOCUS_INSTRUCTIONS(focus) \o <<NL, NL>> \o prompt
                     ELSE prompt
        fullPrompt == IF responseStyle # "normal"
                      THEN STYLE_INSTRUCTIONS(responseStyle) \o <<NL, NL>> \o withFocus
                      ELSE withFocus
    IN  /\ pc = "idle"
        /\ req' = [tool |-> "quick_query", prompt |-> prompt, focus |-> focus,
                   option |-> responseStyle]
        /\ QueryTool("quick_query", prompt, fullPrompt)

DeepResearch(prompt, focus, citationMode) ==
    LET withFocus == IF focus # "general"
                     THEN FOCUS_INSTRUCTIONS(focus) \o <<NL, NL>> \o prompt
                     ELSE prompt
        fullPrompt == IF citationMode # "none"
                      THEN withFocus \o <<NL, NL>> \o CITATION_INSTRUCTIONS(citationMode)
                      ELSE withFocus
    IN  /\ pc = "idle"
        /\ req' = [tool |-> "deep_research", prompt |-> prompt, focus |-> focus,
                   option |-> citationMode]
        /\ QueryTool("deep_research", prompt, fullPrompt)

AnalyzeDirectory(inputPath) ==
    LET projectRoot == getProjectRoot
        resolvedPath == IF path_isAbsolute(inputPath)
                        THEN path_resolve(<<inputPath>>)
                        ELSE path_resolve(<<projectRoot, inputPath>>)
    IN  /\ pc = "idle"
        /\ req' = [tool |-> "analyze_directory", prompt |-> inputPath, focus |-> "general",
                   option |-> "none"]
        /\ IF ~isWithinProjectRoot(resolvedPath, projectRoot)
           THEN Reject(PATH_NOT_ALLOWED, <<"Path", "is", "outside", "project", "root">>)
           ELSE /\ pc' = "enumerating"
                /\ UNCHANGED <<geminiPrompt, finalPrompt, tier, lastError, procs, progress,
                               execResult, toolResponse>>
        /\ UNCHANGED <<pathVars, chunkVars, serverVars, runnerVars, envVars, cacheVars>>

\* enumerateDirectory has resolved with fileCount files
EnumerateDone(fileCount) ==
    /\ pc = "enumerating"
    /\ IF fileCount = 0
       THEN /\ toolResponse' = [kind |-> "ok", tool |-> "analyze_directory", fileCount |-> 0]
            /\ pc' = "done"
            /\ UNCHANGED <<geminiPrompt, finalPrompt, tier, lastError, procs, progress,
                           execResult>>
       ELSE \E started \in BOOLEAN :
                ExecuteGeminiCLI(<<"[ANALYZE]">> \o req.prompt \o <<"[FILES]">>,
                                 "analyze_directory", started)
    /\ UNCHANGED <<req, pathVars, chunkVars, serverVars, runnerVars, envVars, cacheVars>>

\* child k settles the promise of its executeCommand call
Settle(k, state, code, outcome) ==
    [procs EXCEPT ![k] = [@ EXCEPT !.state = state, !.exitCode = code,
                                   !.isResolved = TRUE, !.outcome = outcome]]

\* executeGeminiCLI after the await resolved, and the tool's success path
OnResolved(prs, output) ==
    LET parsed == parseGeminiOutput(output)
        result == [answer |-> parsed.text,
                   model |-> reportedModel(getModelTiers(req.tool), tier)]
        chunking == /\ req.tool # "analyze_directory"
                    /\ needsChunking(result.answer, RESPONSE_CHUNK_SIZE_KB)
    IN  /\ procs' = prs
        /\ execResult' = [kind |-> "returned", answer |-> result.answer,
                          model |-> result.model]
        /\ IF chunking
           THEN \E random \in Randoms :
                    /\ Store(chunkResponse(result.answer, RESPONSE_CHUNK_SIZE_KB),
                             CACHE_TTL_MS, random, req.tool)
                    /\ toolResponse' =
                           successResponse(req.tool, result, generateCacheKey(now, random))
           ELSE /\ toolResponse' = successResponse(req.tool, result, <<>>)
                /\ UNCHANGED cacheVars
        /\ pc' = "done"
        /\ UNCHANGED <<req, geminiPrompt, finalPrompt, tier, lastError, progress>>

\* mutant: the error is swallowed and the call never ends
Throw_hang(prs, message) ==
    /\ procs' = prs
    /\ UNCHANGED <<pc, execResult, toolResponse, tier, progress>>

\* executeGeminiCLI throws lastError, and the tool's catch block
Throw(prs, message) ==
    /\ procs' = prs
    /\ execResult' = [kind |-> "threw", message |-> message]
    /\ toolResponse' = errorResponse(classifyError(message), message)
    /\ pc' = "done"
    /\ UNCHANGED <<tier, progress>>

\* executeGeminiCLI after the await rejected: the catch block, then either
\* the next iteration up to its await or the throw
OnRejected(prs, message) ==
    LET modelTiers == getModelTiers(req.tool)
    IN  /\ lastError' = message
        /\ IF isQuotaError(message) /\ tier < Len(modelTiers) - 1
           THEN IF nextTier(tier) < Len(modelTiers)
                THEN /\ \E started \in BOOLEAN :
                            StartAttempt(nextTier(tier), finalPrompt, req.tool, started, prs)
                     /\ UNCHANGED <<execResult, toolResponse>>
                ELSE Throw(prs, message)
           ELSE Throw(prs, message)
        /\ UNCHANGED <<req, geminiPrompt, finalPrompt>>

\* the 'close' event of child k
ChildClose(k, ev) ==
    /\ k \in 1..Len(procs)
    /\ \/ procs[k].state = "running" /\ ev \in CloseEvents
       \/ procs[k].state = "errored" /\ ev = LateClose
    /\ IF procs[k].isResolved
       THEN /\ procs' = [procs EXCEPT ![k] = [@ EXCEPT !.state = "closed",
                                                       !.exitCode = ev.code]]
            /\ UNCHANGED <<pc, req, geminiPrompt, finalPrompt, tier, lastError, progress,
                           execResult, toolResponse, cacheVars>>
       ELSE IF ev.code = "0"
       THEN OnResolved(Settle(k, "closed", ev.code,
                              [settled |-> "resolved", output |-> ev.stdout]),
                       ev.stdout)
       ELSE /\ OnRejected(Settle(k, "closed", ev.code,
                                 [settled |-> "rejected",
                                  message |-> closeErrorMessage(ev.code, ev.stderr)]),
                          closeErrorMessage(ev.code, ev.stderr))
            /\ UNCHANGED cacheVars
    /\ UNCHANGED <<pathVars, chunkVars, serverVars, runnerVars, envVars>>

\* the 'error' event of child k, which could not be started
ChildError(k) ==
    /\ k \in 1..Len(procs)
    /\ procs[k].state = "spawnfailed"
    /\ IF procs[k].isResolved
       THEN /\ procs' = [procs EXCEPT ![k] = [@ EXCEPT !.state = "errored"]]
            /\ UNCHANGED <<pc, req, geminiPrompt, finalPrompt, tier, lastError, progress,
                           execResult, toolResponse>>
       ELSE OnRejected(Settle(k, "errored", "none",
                              [settled |-> "rejected",
                               message |-> spawnErrorMessage(SpawnENOENT)]),
                       spawnErrorMessage(SpawnENOENT))
    /\ UNCHANGED <<pathVars, chunkVars, serverVars, runnerVars, envVars, cacheVars>>

(***************************************************************************)
(* fetch-chunk.tool.ts                                                     *)
(***************************************************************************)
\* fetchChunkTool.execute: the response and the Map it leaves.  ts are the
\* values of Date.now() at its three reads of the store, in call order
fetchChunk(c, cacheKey, chunkIndex, ts) ==
    IF cacheKey = <<>>
    THEN [response |-> errorResponse(INVALID_ARGUMENT,
                                     <<"cacheKey", "must", "be", "a", "non-empty", "string">>),
          cache |-> c]
    ELSE IF chunkIndex < 1
    THEN [response |-> errorResponse(INVALID_ARGUMENT,
                                     <<"chunkIndex", "must", "be", "a", "positive", "integer">>),
          cache |-> c]
    ELSE
    LET cacheEntry == getResponse(c, cacheKey, ts[1])
        metadata == getCacheMetadata(cacheEntry.cache, cacheKey, ts[2])
        chunk == getChunk(metadata.cache, cacheKey, chunkIndex, ts[3])
    IN  IF cacheEntry.value = NoResult
        THEN [response |-> errorResponse(CACHE_EXPIRED, <<"Cache", "expired">>),
              cache |-> cacheEntry.cache]
        ELSE IF metadata.value = NoResult
        THEN [response |-> errorResponse(CACHE_EXPIRED, <<"Cache", "expired">>),
              cache |-> metadata.cache]
        ELSE IF chunkIndex > metadata.value.totalChunks
        THEN [response |-> errorResponse(INVALID_CHUNK_INDEX, <<"Invalid", "chunk", "index">>),
              cache |-> metadata.cache]
        ELSE IF chunk.value = NoResult
        THEN [response |-> errorResponse(INTERNAL,
                                         <<"Failed", "to", "retrieve", "chunk", "from", "cache">>),
              cache |-> chunk.cache]
        ELSE [response |-> [kind |-> "ok", tool |-> "fetch_chunk", cacheKey |-> cacheKey,
                            chunk |-> [index |-> chunkIndex,
                                       total |-> metadata.value.totalChunks,
                                       content |-> chunk.value.content],
                            expiresAt |-> metadata.value.expiresAt],
              cache |-> chunk.cache]

\* the values Date.now() can take at three successive reads that start at
\* t: the clock may move on by a tick between two reads, and a due sweep
\* runs before the clock passes it
ReadTimes(t) ==
    {ts \in {<<t, t, t>>, <<t, t, t + 1>>, <<t, t + 1, t + 1>>} :
        /\ ts[3] <= MaxTime
        /\ cleanupTimer.active => ts[3] <= cleanupTimer.due}

\* a fetch_chunk call, made after the query call has ended
FetchChunk(cacheKey, chunkIndex) ==
    /\ pc = "done"
    /\ \E ts \in ReadTimes(now) :
          /\ toolResponse' = fetchChunk(cache, cacheKey, chunkIndex, ts).response
          /\ cache' = fetchChunk(cache, cacheKey, chunkIndex, ts).cache
          /\ now' = ts[3]
    /\ UNCHANGED <<pc, req, geminiPrompt, finalPrompt, tier, lastError, procs, progress,
                   execResult, cleanupTimer, puts, pathVars, chunkVars, serverVars, runnerVars, envVars>>

(***************************************************************************)
(* Specification of validatePath: the inputs are drawn by Init             *)
(***************************************************************************)
PathAlphabet == {"/", ".", "a", "b"}
PathInputs == Strings(PathAlphabet, MaxPathLen)
\* trusted roots: absolute and normalised, the filesystem root included
Roots == {sep, <<"/", "a">>, <<"/", "a", "/", "b">>}

PromptIdle == cpPrompt = <<>> /\ cpOnDisk = FALSE /\ cpCheck = NoResult
PathIdle == vpInput = <<>> /\ vpRoot = sep /\ vpResult = NoResult /\ PromptIdle
LoopIdle == crPhase = "idle" /\ crPosition = 0 /\ crPushed = <<>>
ChunkIdle == crText = <<>> /\ crSizeKB = 1 /\ crChunks = <<>> /\ LoopIdle

DoValidatePath ==
    /\ vpResult = NoResult
    /\ \E onDisk \in BOOLEAN : vpResult' = validatePath(vpInput, vpRoot, onDisk)
    /\ UNCHANGED <<vpInput, vpRoot, cpPrompt, cpOnDisk, cpCheck, chunkVars, execVars, cacheVars, serverVars, runnerVars, envVars>>

(***************************************************************************)
(* Specification of checkPromptPathsValid: the inputs are drawn by Init    *)
(***************************************************************************)
RefPromptAlphabet == {"@", ".", "/", "a", " "}
RefPrompts == Strings(RefPromptAlphabet, MaxRefPromptLen)

DoCheckPromptPaths ==
    /\ cpCheck = NoResult
    /\ cpCheck' = checkPromptPathsValid(cpPrompt, vpRoot, cpOnDisk)
    /\ UNCHANGED <<vpInput, vpRoot, vpResult, cpPrompt, cpOnDisk, chunkVars,
                   execVars, cacheVars, serverVars, runnerVars, envVars>>

(***************************************************************************)
(* Specification of chunkResponse: the inputs are drawn by Init            *)
(***************************************************************************)
TextAlphabet == {"a", NL}
Texts == Strings(TextAlphabet, MaxTextLen)

DoChunkResponse ==
    /\ crChunks = <<>>
    /\ crChunks' = chunkResponse(crText, crSizeKB)
    /\ UNCHANGED <<crText, crSizeKB, crPhase, crPosition, crPushed, pathVars, execVars, cacheVars, serverVars, runnerVars, envVars>>

(***************************************************************************)
(* chunkResponse, one action for each iteration of its cut loop            *)
(***************************************************************************)
\* from the entry to the while loop, or to the return of a short text
EnterChunkResponse ==
    /\ crPhase = "idle"
    /\ IF Len(crText) <= crSizeKB * BytesPerKB
       THEN /\ crChunks' = <<[content |-> crText, index |-> 1, total |-> 1]>>
            /\ crPhase' = "returned"
       ELSE /\ crPhase' = "loop"
            /\ UNCHANGED crChunks
    /\ UNCHANGED <<crText, crSizeKB, crPosition, crPushed, pathVars, execVars, cacheVars,
                   serverVars, runnerVars, envVars>>

\* one iteration of while (currentPosition < response.length)
CutIteration ==
    /\ crPhase = "loop"
    /\ crPosition < Len(crText)
    /\ LET endPosition == cutEnd(crText, crSizeKB * BytesPerKB, crPosition)
       IN  /\ crPushed' = Append(crPushed,
                                 pushedChunk(chunkContent(crText, crPosition, endPosition),
                                             Len(crPushed) + 1))
           /\ crPosition' = endPosition
    /\ UNCHANGED <<crText, crSizeKB, crChunks, crPhase, pathVars, execVars, cacheVars,
                   serverVars, runnerVars, envVars>>

\* the loop is left, the totals are written and the chunks returned
ReturnChunks ==
    /\ crPhase = "loop"
    /\ ~(crPosition < Len(crText))
    /\ crChunks' = [k \in 1..Len(crPushed) |-> [crPushed[k] EXCEPT !.total = Len(crPushed)]]
    /\ crPhase' = "returned"
    /\ UNCHANGED <<crText, crSizeKB, crPosition, crPushed, pathVars, execVars, cacheVars,
                   serverVars, runnerVars, envVars>>

(***************************************************************************)
(* index.ts: the tools/call handler and the progress updates.  A request   *)
(* that asks for progress carries its request id as progress token.        *)
(***************************************************************************)
\* the tools/call requests of one behaviour, by request id
CallIds == {1, 2}
ServerTools == {"quick_query", "deep_research"}
UnknownTool == "unknown_tool"

Undefined == [type |-> "undefined"]
NumberToken(n) == [type |-> "number", value |-> n]

\* !progressToken
Falsy(progressToken) == progressToken = Undefined \/ progressToken = NumberToken(0)

\* toolExists(toolName)
toolExists(toolName) == toolName \in ServerTools

NoCall ==
    [status |-> "none", tool |-> "", progressToken |-> Undefined, interval |-> FALSE,
     progress |-> 0, messageIndex |-> 0, fires |-> 0, sent |-> <<>>, result |-> NoResult]

ServerIdle ==
    /\ isProcessing = FALSE
    /\ currentOperationName = ""
    /\ latestOutput = <<>>
    /\ calls = [c \in CallIds |-> NoCall]

\* what the subprocess of call c writes: its id, then a newline
OutputOf(c) == <<ToString(c), NL>>

PREVIEW_LENGTH == 150

\* latestOutput.slice(-150).trim()
outputPreview(output) ==
    trim(IF Len(output) <= PREVIEW_LENGTH THEN output
         ELSE SubSeq(output, Len(output) - PREVIEW_LENGTH + 1, Len(output)))

\* sendProgressNotification: the notifications of the call after the send
sendProgressNotification(sent, progressToken, value, total, message) ==
    IF Falsy(progressToken) THEN sent
    ELSE IF total = <<>>
    THEN Append(sent, [progressToken |-> progressToken, progress |-> value,
                       message |-> message])
    ELSE Append(sent, [progressToken |-> progressToken, progress |-> value,
                       total |-> total[1], message |-> message])

\* the handler up to the await of executeTool: startProgressUpdates
CallTool(c, toolName, progressToken) ==
    /\ calls[c].status = "none"
    /\ IF ~toolExists(toolName)
       THEN /\ calls' = [calls EXCEPT ![c] = [@ EXCEPT !.status = "done", !.tool = toolName,
                                                       !.progressToken = progressToken,
                                                       !.result = [thrown |-> toolName]]]
            /\ UNCHANGED <<isProcessing, currentOperationName, latestOutput>>
       ELSE /\ isProcessing' = TRUE
            /\ currentOperationName' = toolName
            /\ latestOutput' = <<>>
            /\ calls' = [calls EXCEPT ![c] =
                   [@ EXCEPT !.status = "running", !.tool = toolName,
                             !.progressToken = progressToken,
                             !.interval = TRUE,
                             !.sent = IF Falsy(progressToken) THEN @
                                      ELSE sendProgressNotification(
                                               @, progressToken, 0, <<>>,
                                               [text |-> "Starting", operation |-> toolName,
                                                preview |-> <<>>])]]
    /\ UNCHANGED <<pathVars, chunkVars, execVars, cacheVars, runnerVars, envVars>>

\* the callback handed to executeTool runs with output of call c's subprocess
OnProgress(c) ==
    /\ calls[c].status = "running"
    /\ latestOutput' = OutputOf(c)
    /\ UNCHANGED <<isProcessing, currentOperationName, calls, pathVars, chunkVars,
                   execVars, cacheVars, runnerVars, envVars>>

\* the callback of call c's keepalive interval
IntervalFire(c) ==
    /\ calls[c].interval
    /\ calls[c].fires < MaxFires
    /\ IF isProcessing /\ ~Falsy(calls[c].progressToken)
       THEN calls' = [calls EXCEPT ![c] =
                [@ EXCEPT !.fires = @ + 1,
                          !.progress = @ + 1,
                          !.messageIndex = @ + 1,
                          !.sent = sendProgressNotification(
                                       @, calls[c].progressToken, calls[c].progress + 1, <<>>,
                                       [text |-> "progressMessages",
                                        index |-> calls[c].messageIndex % 5,
                                        operation |-> calls[c].tool,
                                        preview |-> outputPreview(latestOutput)])]]
       ELSE IF ~isProcessing
       THEN calls' = [calls EXCEPT ![c] = [@ EXCEPT !.fires = @ + 1, !.interval = FALSE]]
       ELSE calls' = [calls EXCEPT ![c] = [@ EXCEPT !.fires = @ + 1]]
    /\ UNCHANGED <<isProcessing, currentOperationName, latestOutput, pathVars, chunkVars,
                   execVars, cacheVars, runnerVars, envVars>>

\* the CallToolResult of the handler: isError and the text content
CallToolResult(isError, text) == [isError |-> isError, text |-> text]

\* what executeTool resolves with: a tool's response or a tool's error object
ToolReturnValues(toolName) ==
    {[kind |-> "ok", tool |-> toolName],
     errorResponse(INVALID_ARGUMENT, <<"Please", "provide", "a", "prompt">>),
     errorResponse(GEMINI_CLI_ERROR, closeErrorMessage("1", <<>>))}

\* what executeTool rejects with: the message of the schema's ZodError
ToolThrowMessages(toolName) ==
    {<<"Invalid", "arguments", "for", toolName, "prompt:", "Required">>}

\* stopProgressUpdates(progressData, success) for call c, and the result the
\* handler returns next
stopProgressUpdates(c, success, result) ==
    /\ isProcessing' = FALSE
    /\ currentOperationName' = ""
    /\ calls' = [calls EXCEPT ![c] =
           [@ EXCEPT !.status = "done",
                     !.interval = FALSE,
                     !.result = result,
                     !.sent = sendProgressNotification(
                                  @, calls[c].progressToken, 100, <<100>>,
                                  [text |-> IF success THEN "completed successfully"
                                            ELSE "failed",
                                   operation |-> currentOperationName,
                                   preview |-> <<>>])]]

\* executeTool resolved: the handler after the await
ToolReturns(c, text) ==
    /\ calls[c].status = "running"
    /\ text \in ToolReturnValues(calls[c].tool)
    /\ stopProgressUpdates(c, TRUE, CallToolResult(FALSE, text))
    /\ UNCHANGED <<latestOutput, pathVars, chunkVars, execVars, cacheVars, runnerVars, envVars>>

\* executeTool rejected: the handler's catch block
ToolThrows(c, errorMessage) ==
    /\ calls[c].status = "running"
    /\ errorMessage \in ToolThrowMessages(calls[c].tool)
    /\ stopProgressUpdates(c, FALSE,
           CallToolResult(TRUE, errorResponse(INTERNAL,
                                              <<"Error", "executing", calls[c].tool>>
                                                  \o errorMessage)))
    /\ UNCHANGED <<latestOutput, pathVars, chunkVars, execVars, cacheVars, runnerVars, envVars>>

(***************************************************************************)
(* commandExecutor.ts: executeCommand, one call with its event handlers.   *)
(* stdout is a string of characters, stderr a sequence of words.           *)
(***************************************************************************)
\* a caller that wants no hard timeout
NoTimeout == <<>>

\* no executeCommand call yet.  timeout is the hard timeout the caller wants
\* for the run: executeCommand has no parameter that takes it; settleCalls
\* counts the calls of resolve and reject
NoRun ==
    [state |-> "none", onProgress |-> FALSE, timeout |-> NoTimeout, startTime |-> 0,
     stdout |-> <<>>, stderr |-> <<>>, isResolved |-> FALSE, lastReportedLength |-> 0,
     reported |-> <<>>, dataEvents |-> 0, exitCode |-> "none", outcome |-> Pending,
     settleCalls |-> 0]

RunnerIdle == run = NoRun

StdoutData == {<<"a">>, <<"b", NL>>}
StderrData == {<<"quota">>, <<NL>>}
ExitCodes == {"0", "1", "null"}
RunTimeouts == {NoTimeout, <<1>>, <<2>>}

\* executeCommand up to the return of the promise: spawn
ExecuteCommand(onProgress, timeout, started) ==
    /\ run.state = "none"
    /\ run' = [NoRun EXCEPT !.state = IF started THEN "running" ELSE "spawnfailed",
                            !.onProgress = onProgress,
                            !.timeout = timeout,
                            !.startTime = now]
    /\ UNCHANGED <<pathVars, chunkVars, execVars, cacheVars, serverVars, envVars>>

OnStdoutData_cumulative(chunk) ==
    /\ run.state = "running"
    /\ run.dataEvents < MaxData
    /\ LET stdout == run.stdout \o chunk
       IN  run' = IF run.onProgress /\ Len(stdout) > run.lastReportedLength
                  THEN [run EXCEPT !.stdout = stdout,
                                   !.dataEvents = @ + 1,
                                   !.lastReportedLength = Len(stdout),
                                   !.reported = Append(@, stdout)]
                  ELSE [run EXCEPT !.stdout = stdout, !.dataEvents = @ + 1]
    /\ UNCHANGED <<pathVars, chunkVars, execVars, cacheVars, serverVars, envVars>>

\* childProcess.stdout.on("data")
OnStdoutData(chunk) ==
    /\ run.state = "running"
    /\ run.dataEvents < MaxData
    /\ LET stdout == run.stdout \o chunk
       IN  run' = IF run.onProgress /\ Len(stdout) > run.lastReportedLength
                  THEN [run EXCEPT !.stdout = stdout,
                                   !.dataEvents = @ + 1,
                                   !.lastReportedLength = Len(stdout),
                                   !.reported =
                                       Append(@, SubSeq(stdout, run.lastReportedLength + 1,
                                                        Len(stdout)))]
                  ELSE [run EXCEPT !.stdout = stdout, !.dataEvents = @ + 1]
    /\ UNCHANGED <<pathVars, chunkVars, execVars, cacheVars, serverVars, envVars>>

\* childProcess.stderr.on("data")
OnStderrData(chunk) ==
    /\ run.state = "running"
    /\ run.dataEvents < MaxData
    /\ run' = [run EXCEPT !.stderr = @ \o chunk, !.dataEvents = @ + 1]
    /\ UNCHANGED <<pathVars, chunkVars, execVars, cacheVars, serverVars, envVars>>

\* the listener of childProcess.on("error"), on the closure variables
errorListener(r) ==
    IF ~r.isResolved
    THEN [r EXCEPT !.isResolved = TRUE,
                   !.settleCalls = @ + 1,
                   !.outcome = [settled |-> "rejected",
                                message |-> spawnErrorMessage(SpawnENOENT)]]
    ELSE r

\* mutant: the close listener settles whether or not the promise is settled
closeListener_unguarded(r, code) ==
    IF code = "0"
    THEN [r EXCEPT !.isResolved = TRUE,
                   !.settleCalls = @ + 1,
                   !.outcome = [settled |-> "resolved", output |-> trim(r.stdout)]]
    ELSE [r EXCEPT !.isResolved = TRUE,
                   !.settleCalls = @ + 1,
                   !.outcome = [settled |-> "rejected",
                                message |-> closeErrorMessage(code, r.stderr)]]

\* the listener of childProcess.on("close"), on the closure variables
closeListener(r, code) ==
    IF r.isResolved THEN r
    ELSE IF code = "0"
    THEN [r EXCEPT !.isResolved = TRUE,
                   !.settleCalls = @ + 1,
                   !.outcome = [settled |-> "resolved", output |-> trim(r.stdout)]]
    ELSE [r EXCEPT !.isResolved = TRUE,
                   !.settleCalls = @ + 1,
                   !.outcome = [settled |-> "rejected",
                                message |-> closeErrorMessage(code, r.stderr)]]

\* childProcess.on("error"): the child could not be started
OnError ==
    /\ run.state = "spawnfailed"
    /\ run' = [errorListener(run) EXCEPT !.state = "errored"]
    /\ UNCHANGED <<pathVars, chunkVars, execVars, cacheVars, serverVars, envVars>>

\* childProcess.on("close")
OnClose(code) ==
    /\ \/ run.state = "running" /\ code \in ExitCodes
       \/ run.state = "errored" /\ code = LateClose.code
    /\ run' = [closeListener(run, code) EXCEPT !.state = "closed", !.exitCode = code]
    /\ UNCHANGED <<pathVars, chunkVars, execVars, cacheVars, serverVars, envVars>>

\* an 'error' event at any moment of the child's life
EmitError ==
    /\ run.state # "none"
    /\ run' = [errorListener(run) EXCEPT !.state = "errored"]
    /\ UNCHANGED <<pathVars, chunkVars, execVars, cacheVars, serverVars, envVars>>

\* a 'close' event at any moment of the child's life
EmitClose(code) ==
    /\ run.state # "none"
    /\ run' = [closeListener(run, code) EXCEPT !.state = "closed", !.exitCode = code]
    /\ UNCHANGED <<pathVars, chunkVars, execVars, cacheVars, serverVars, envVars>>

vars == <<pathVars, chunkVars, execVars, cacheVars, serverVars, runnerVars, envVars>>

Init == ExecIdle /\ PathIdle /\ ChunkIdle /\ CacheIdle /\ ServerIdle /\ RunnerIdle /\ EnvUnset

Next ==
    \/ \E p \in Prompts, f \in FocusValues, o \in StyleValues : QuickQuery(p, f, o)
    \/ \E p \in Prompts, f \in FocusValues, o \in CitationValues : DeepResearch(p, f, o)
    \/ \E d \in DirPaths : AnalyzeDirectory(d)
    \/ \E n \in 0..1 : EnumerateDone(n)
    \/ \E k \in 1..Len(procs), ev \in CloseEvents \cup {LateClose} : ChildClose(k, ev)
    \/ \E k \in 1..Len(procs) : ChildError(k)

Spec == Init /\ [][Next]_vars

InitPath ==
    /\ vpInput \in PathInputs
    /\ vpRoot \in Roots
    /\ vpResult = NoResult
    /\ PromptIdle
    /\ ChunkIdle
    /\ ExecIdle
    /\ CacheIdle
    /\ ServerIdle
    /\ RunnerIdle
    /\ EnvUnset

NextPath == DoValidatePath

SpecPath == InitPath /\ [][NextPath]_vars

InitPrompt ==
    /\ cpPrompt \in RefPrompts
    /\ cpOnDisk \in BOOLEAN
    /\ cpCheck = NoResult
    /\ vpInput = <<>>
    /\ vpRoot \in Roots
    /\ vpResult = NoResult
    /\ ChunkIdle
    /\ ExecIdle
    /\ CacheIdle
    /\ ServerIdle
    /\ RunnerIdle
    /\ EnvUnset

NextPrompt == DoCheckPromptPaths

SpecPrompt == InitPrompt /\ [][NextPrompt]_vars

InitChunk ==
    /\ crText \in Texts
    /\ crSizeKB \in 1..MaxSizeKB
    /\ crChunks = <<>>
    /\ LoopIdle
    /\ PathIdle
    /\ ExecIdle
    /\ CacheIdle
    /\ ServerIdle
    /\ RunnerIdle
    /\ EnvUnset

NextChunk == DoChunkResponse

SpecChunk == InitChunk /\ [][NextChunk]_vars

\* chunkResponse step by step; it is synchronous code and runs on
InitCutLoop == InitChunk

NextCutLoop == EnterChunkResponse \/ CutIteration \/ ReturnChunks

SpecCutLoop == InitCutLoop /\ [][NextCutLoop]_vars /\ WF_vars(NextCutLoop)

InitCache == Init

NextCache ==
    \/ \E chunks \in Bundles, ttlMs \in TTLs, random \in Randoms :
            DoCacheResponse(chunks, ttlMs, random)
    \/ \E key \in ReadKeys : DoGetResponse(key)
    \/ \E key \in ReadKeys, chunkIndex \in ChunkIndexes : DoGetChunk(key, chunkIndex)
    \/ \E key \in ReadKeys : DoGetCacheMetadata(key)
    \/ \E key \in ReadKeys : DoDeleteCache(key)
    \/ DoClearExpired
    \/ DoClearAll
    \/ CleanupTick
    \/ Tick

SpecCache == InitCache /\ [][NextCache]_vars

(***************************************************************************)
(* Specification of a query call whose answer is redeemed with fetch_chunk *)
(* while another call stores a bundle of its own                           *)
(***************************************************************************)
FetchPrompts == {<<"@", ".">>}
FetchKeys == ReadKeys \cup {<<>>}

\* a call in flight beside the query call stores its bundle once the query
\* call has stored its own
OverlappingPut(chunks, random) ==
    /\ pc = "done"
    /\ puts # <<>>
    /\ DoCacheResponse(chunks, CACHE_TTL_MS, random)

InitFetch == Init

NextFetch ==
    \/ \E p \in FetchPrompts : QuickQuery(p, "general", "normal")
    \/ \E p \in FetchPrompts : DeepResearch(p, "general", "none")
    \/ \E k \in 1..Len(procs), ev \in CloseEvents \cup {LateClose} : ChildClose(k, ev)
    \/ \E k \in 1..Len(procs) : ChildError(k)
    \/ \E chunks \in Bundles, random \in Randoms : OverlappingPut(chunks, random)
    \/ \E key \in FetchKeys, chunkIndex \in ChunkIndexes : FetchChunk(key, chunkIndex)
    \/ CleanupTick
    \/ Tick

SpecFetch == InitFetch /\ [][NextFetch]_vars

(***************************************************************************)
(* Specification of the tools/call handler with overlapping requests       *)
(***************************************************************************)
InitServer == Init

NextServer ==
    \/ \E c \in CallIds, toolName \in ServerTools \cup {UnknownTool} :
          \E progressToken \in {Undefined, NumberToken(0), NumberToken(c)} :
              CallTool(c, toolName, progressToken)
    \/ \E c \in CallIds : OnProgress(c)
    \/ \E c \in CallIds : IntervalFire(c)
    \/ \E c \in CallIds, toolName \in ServerTools :
          \E text \in ToolReturnValues(toolName) : ToolReturns(c, text)
    \/ \E c \in CallIds, toolName \in ServerTools :
          \E errorMessage \in ToolThrowMessages(toolName) : ToolThrows(c, errorMessage)

SpecServer == InitServer /\ [][NextServer]_vars

(***************************************************************************)
(* Specification of a query call under a configured chunk size             *)
(***************************************************************************)
EnvValues == {<<>>, <<"x">>, <<"0">>, <<"-", "1">>, <<"1">>, <<"2">>}

InitConfig ==
    /\ env \in EnvValues
    /\ ExecIdle /\ PathIdle /\ ChunkIdle /\ CacheIdle /\ ServerIdle /\ RunnerIdle

NextConfig ==
    \/ \E p \in FetchPrompts : QuickQuery(p, "general", "normal")
    \/ \E p \in FetchPrompts : DeepResearch(p, "general", "none")
    \/ \E k \in 1..Len(procs), ev \in CloseEvents \cup {LateClose} : ChildClose(k, ev)
    \/ \E k \in 1..Len(procs) : ChildError(k)

SpecConfig == InitConfig /\ [][NextConfig]_vars

(***************************************************************************)
(* Specification of a tool call whose subprocesses all settle: every       *)
(* child that was spawned emits its 'error' or 'close' event in the end    *)
(***************************************************************************)
InitSettling == Init

NextSettling ==
    \/ \E p \in FetchPrompts : QuickQuery(p, "general", "normal")
    \/ \E p \in FetchPrompts : DeepResearch(p, "general", "none")
    \/ AnalyzeDirectory(Dot)
    \/ \E n \in 0..1 : EnumerateDone(n)
    \/ \E k \in 1..Len(procs), ev \in CloseEvents \cup {LateClose} : ChildClose(k, ev)
    \/ \E k \in 1..Len(procs) : ChildError(k)

SpecSettling ==
    /\ InitSettling
    /\ [][NextSettling]_vars
    /\ WF_vars(\E k \in 1..Len(procs), ev \in CloseEvents \cup {LateClose} : ChildClose(k, ev))
    /\ WF_vars(\E k \in 1..Len(procs) : ChildError(k))

(***************************************************************************)
(* Specification of one executeCommand call while the clock runs           *)
(***************************************************************************)
InitRunner == Init

NextRunner ==
    \/ \E onProgress \in BOOLEAN, timeout \in RunTimeouts, started \in BOOLEAN :
            ExecuteCommand(onProgress, timeout, started)
    \/ \E chunk \in StdoutData : OnStdoutData(chunk)
    \/ \E chunk \in StderrData : OnStderrData(chunk)
    \/ OnError
    \/ \E code \in ExitCodes \cup {LateClose.code} : OnClose(code)
    \/ Tick

SpecRunner == InitRunner /\ [][NextRunner]_vars

(***************************************************************************)
(* Specification of one executeCommand call whose child emits 'error' and  *)
(* 'close' in any order and number                                         *)
(***************************************************************************)
InitEvents == Init

NextEvents ==
    \/ \E onProgress \in BOOLEAN, started \in BOOLEAN :
            ExecuteCommand(onProgress, NoTimeout, started)
    \/ \E chunk \in StdoutData : OnStdoutData(chunk)
    \/ \E chunk \in StderrData : OnStderrData(chunk)
    \/ EmitError
    \/ \E code \in ExitCodes \cup {LateClose.code} : EmitClose(code)

SpecEvents == InitEvents /\ [][NextEvents]_vars

(***************************************************************************)
(* Path Guard properties                                                   *)
(***************************************************************************)
Validated == vpResult # NoResult

\* the segments of an absolute, normalised path
Segments(p) == NormSegs(SplitSep(p), <<>>, FALSE)

IsPrefixSeq(a, b) == Len(a) <= Len(b) /\ SubSeq(b, 1, Len(a)) = a

\* C7 (as amended): validatePath(p, r).allowed is true iff the resolved,
\* normalised path equals r or is a descendant of r, that is, iff the
\* segments of r are a prefix of the segments of the resolved path; for the
\* filesystem root r = "/" every absolute path is a descendant.
C7_Containment ==
    Validated =>
        (vpResult.allowed <=> IsPrefixSeq(Segments(vpRoot), Segments(vpResult.resolved)))

\* a sibling of the root whose name starts with the root's name was
\* validated and rejected
C7_Witness ==
    /\ Validated
    /\ vpRoot # sep
    /\ startsWith(vpResult.resolved, vpRoot)
    /\ vpResult.resolved # vpRoot
    /\ ~startsWith(vpResult.resolved, vpRoot \o sep)
    /\ ~vpResult.allowed

\* C7 (as stated): allowed iff the resolved path equals r or starts with r
\* followed by the path separator.
C7_Original ==
    Validated =>
        (vpResult.allowed <=>
            (vpResult.resolved = vpRoot \/ startsWith(vpResult.resolved, vpRoot \o sep)))

(***************************************************************************)
(* Execution Orchestrator properties                                       *)
(***************************************************************************)
Attempts == 1..Len(procs)

HasFlag(args, flag) == \E j \in 1..Len(args) : args[j] = flag

\* the argument that follows the first occurrence of flag
ArgAfter(args, flag) ==
    args[(CHOOSE j \in 1..(Len(args) - 1) :
            args[j] = flag /\ \A m \in 1..(j - 1) : args[m] # flag) + 1]

\* the model handed to the engine by an attempt, "auto" when -m is absent
EngineModel(args) ==
    IF HasFlag(args, FLAG_MODEL) THEN ArgAfter(args, FLAG_MODEL)[1] ELSE "auto"

Rejected(k) == procs[k].outcome.settled = "rejected"

EndedInFailure(k) ==
    \/ procs[k].state = "errored"
    \/ procs[k].state = "closed" /\ procs[k].exitCode # "0"

Running == {k \in Attempts : procs[k].state = "running"}

\* the quota pattern: quota, resource_exhausted, rate limit, capacity,
\* too many requests or 429, in any letter case
QuotaPatterns ==
    {<<"quota">>, <<"resource_exhausted">>, <<"rate", "limit">>, <<"capacity">>,
     <<"too", "many", "requests">>, <<"429">>}

QuotaPattern(message) ==
    \E pat \in QuotaPatterns : includes(toLowerCase(message), pat)

\* the plan of a tool: its two model identifiers, then auto-select
Plan(toolName) ==
    <<MODEL_TIERS[toolName].tier1, MODEL_TIERS[toolName].tier2, "auto">>

\* C1: within one executeGeminiCLI call the tiers are attempted strictly in
\* plan order: the k-th subprocess is that of tier k, every earlier
\* subprocess has ended in failure, and at most one subprocess is running.
C1_TiersInOrder ==
    /\ Len(procs) <= 3
    /\ \A k \in Attempts :
          /\ procs[k].tier = k - 1
          /\ EngineModel(procs[k].args) = Plan(req.tool)[k]
    /\ \A k \in 1..(Len(procs) - 1) : EndedInFailure(k)
    /\ Cardinality(Running) <= 1

\* the auto-select tier is running after tiers 1 and 2 have failed
C1_Witness ==
    /\ Len(procs) = 3
    /\ procs[3].state = "running"
    /\ ~HasFlag(procs[3].args, FLAG_MODEL)

\* C2: a failure that does not match the quota pattern, or the failure of
\* the last tier, ends the call at once with that same error and no further
\* subprocess; every attempt that was followed by another one failed with a
\* quota pattern.
C2_FailFast ==
    /\ \A k \in Attempts :
          (Rejected(k) /\ (~QuotaPattern(procs[k].outcome.message) \/ k = 3))
              => /\ k = Len(procs)
                 /\ pc = "done"
                 /\ execResult = [kind |-> "threw", message |-> procs[k].outcome.message]
    /\ \A k \in 1..(Len(procs) - 1) :
          Rejected(k) /\ QuotaPattern(procs[k].outcome.message)

\* tier 1 failed with a quota pattern, tier 2 with an authentication error,
\* and the call threw without a third attempt
C2_Witness ==
    /\ pc = "done"
    /\ Len(procs) = 2
    /\ Rejected(2)
    /\ ~QuotaPattern(procs[2].outcome.message)
    /\ execResult.kind = "threw"

\* C3: when every tier attempt fails with a quota pattern, the three tiers
\* are attempted once each in order and the failure returned by the tool
\* carries the classification QUOTA_EXCEEDED.
C3_QuotaExceeded ==
    (/\ pc = "done"
     /\ procs # <<>>
     /\ \A k \in Attempts : Rejected(k) /\ QuotaPattern(procs[k].outcome.message))
        => /\ Len(procs) = 3
           /\ \A k \in Attempts : procs[k].tier = k - 1
           /\ toolResponse.kind = "error"
           /\ toolResponse.code = QUOTA_EXCEEDED

\* C4: the model reported by a successful call is the one of the attempt
\* that succeeded ("auto" for the auto-select tier), never that of an
\* earlier tier that failed.
C4_ModelOfSuccessfulTier ==
    (pc = "done" /\ execResult # NoResult /\ execResult.kind = "returned")
        => /\ procs[Len(procs)].exitCode = "0"
           /\ execResult.model = EngineModel(procs[Len(procs)].args)
           /\ execResult.model = Plan(req.tool)[Len(procs)]
           /\ \A k \in 1..(Len(procs) - 1) :
                 execResult.model # EngineModel(procs[k].args)

\* tier 1 failed with a quota pattern and tier 2 succeeded
C4_Witness ==
    /\ pc = "done"
    /\ execResult # NoResult
    /\ execResult.kind = "returned"
    /\ Len(procs) = 2
    /\ QuotaPattern(procs[1].outcome.message)
    /\ execResult.model = MODEL_TIERS[req.tool].tier2

\* C5: neither --yolo nor -y appears in the arguments of any attempt.
C5_NoWriteFlag ==
    \A k \in Attempts :
        ~HasFlag(procs[k].args, <<"--yolo">>) /\ ~HasFlag(procs[k].args, <<"-y">>)

\* C6: in every attempt the prompt argument is SYSTEM_PROMPT, then the
\* separator, then the caller's prompt, the same for every tier.
C6_Preamble ==
    \A k \in Attempts :
        /\ HasFlag(procs[k].args, FLAG_PROMPT)
        /\ ArgAfter(procs[k].args, FLAG_PROMPT)
               = SYSTEM_PROMPT \o PROMPT_SEPARATOR \o geminiPrompt
        /\ ArgAfter(procs[k].args, FLAG_PROMPT) = ArgAfter(procs[1].args, FLAG_PROMPT)
        /\ (req.tool # "analyze_directory" => includes(geminiPrompt, req.prompt))

\* a deep_research call with a citation mode reached its second tier
C6_Witness ==
    /\ Len(procs) >= 2
    /\ req.tool = "deep_research"
    /\ req.option = "paths_only"
    /\ startsWith(ArgAfter(procs[2].args, FLAG_PROMPT), SYSTEM_PROMPT)

(***************************************************************************)
(* Tool properties                                                         *)
(***************************************************************************)
IsQueryTool == pc # "idle" /\ req.tool \in {"quick_query", "deep_research"}

Blank(prompt) == \A k \in 1..Len(prompt) : prompt[k] \in Whitespace

\* the reference resolves to the project root or below it
RefContained(ref) ==
    IsPrefixSeq(Segments(getProjectRoot),
                Segments(validatePath(ref, getProjectRoot, FALSE).resolved))

RefsContained(prompt) ==
    \A j \in 1..Len(extractAtPathReferences(prompt)) :
        RefContained(extractAtPathReferences(prompt)[j])

\* C8: quick_query and deep_research start no engine subprocess for a
\* request whose prompt is empty or holds an @path reference that is not
\* allowed; such a request ends with INVALID_ARGUMENT or PATH_NOT_ALLOWED
\* and executeGeminiCLI is not invoked.
C8_PathCheckFirst ==
    IsQueryTool =>
        /\ (procs # <<>> \/ execResult # NoResult)
              => (~Blank(req.prompt) /\ RefsContained(req.prompt))
        /\ (Blank(req.prompt) \/ ~RefsContained(req.prompt))
              => /\ pc = "done"
                 /\ toolResponse.kind = "error"
                 /\ toolResponse.code \in {INVALID_ARGUMENT, PATH_NOT_ALLOWED}
                 /\ procs = <<>>

\* quick_query rejected a prompt with a parent-traversal reference
C8_Witness ==
    /\ IsQueryTool
    /\ req.tool = "quick_query"
    /\ includes(req.prompt, <<"@", ".", ".">>)
    /\ toolResponse = errorResponse(PATH_NOT_ALLOWED,
                                    <<"Invalid", "@path", "references", "in", "prompt">>)
    /\ procs = <<>>

(***************************************************************************)
(* Segmenter properties                                                    *)
(***************************************************************************)
Chunked == crChunks # <<>>

Contents(chunks) == [k \in 1..Len(chunks) |-> chunks[k].content]

\* C9: concatenating the contents of the segments returned by
\* chunkResponse(s, size) in index order reproduces s exactly.
C9_RoundTrip == Chunked => Concat(Contents(crChunks)) = crText

\* a text was cut into three or more segments, one of them at a newline
C9_Witness ==
    /\ Chunked
    /\ Len(crChunks) >= 3
    /\ \E k \in 1..(Len(crChunks) - 1) :
           /\ Len(crChunks[k].content) < crSizeKB * BytesPerKB
           /\ crChunks[k].content[Len(crChunks[k].content)] = NL

\* C10: every segment returned by chunkResponse(text, size) holds at most
\* size * 1024 characters.
C10_Bounded ==
    Chunked =>
        \A k \in 1..Len(crChunks) : Len(crChunks[k].content) <= crSizeKB * BytesPerKB

(***************************************************************************)
(* Segment Store properties                                                *)
(***************************************************************************)
Stored == 1..Len(puts)

\* the entry that put j stored
StoredEntry(j) ==
    [key |-> puts[j].key, chunks |-> puts[j].chunks, createdAt |-> puts[j].createdAt,
     expiresAt |-> puts[j].expiresAt]

\* getResponse, getChunk and getCacheMetadata return the bundle of put j
Returned(j) ==
    /\ getResponse(cache, puts[j].key, now).value = StoredEntry(j)
    /\ \A i \in 1..Len(puts[j].chunks) :
           getChunk(cache, puts[j].key, i, now).value = puts[j].chunks[i]
    /\ getCacheMetadata(cache, puts[j].key, now).value
           = [totalChunks |-> Len(puts[j].chunks), expiresAt |-> puts[j].expiresAt,
              createdAt |-> puts[j].createdAt]

\* all three report the key of put j absent
Absent(j) ==
    /\ getResponse(cache, puts[j].key, now).value = NoResult
    /\ \A i \in ChunkIndexes : getChunk(cache, puts[j].key, i, now).value = NoResult
    /\ getCacheMetadata(cache, puts[j].key, now).value = NoResult

\* C11: a bundle stored by cacheResponse(chunks, ttl) at time t0 and not
\* explicitly deleted is returned by getResponse, getChunk and
\* getCacheMetadata at every time before t0 + ttl and is reported absent by
\* all three at every time after t0 + ttl.
C11_Expiry ==
    \A j \in Stored :
        ~puts[j].deleted =>
            /\ now < puts[j].expiresAt => Returned(j)
            /\ now > puts[j].expiresAt => Absent(j)

\* C12: any two cacheResponse calls, also two in the same millisecond, are
\* assigned different keys.
C12_DistinctKeys ==
    \A i \in Stored, j \in Stored : i # j => puts[i].key # puts[j].key

\* the step leaves the bundles under every key other than key as they were
FrameOf(key) ==
    {e \in cache : e.key # key} = {e \in cache' : e.key # key}

\* what C13 asks of one step
FrameStep ==
    /\ \A key \in ReadKeys :
          (\/ DoGetResponse(key)
           \/ DoGetCacheMetadata(key)
           \/ DoDeleteCache(key)
           \/ \E chunkIndex \in ChunkIndexes : DoGetChunk(key, chunkIndex))
              => FrameOf(key)
    /\ \A chunks \in Bundles, ttlMs \in TTLs, random \in Randoms :
          DoCacheResponse(chunks, ttlMs, random)
              => FrameOf(generateCacheKey(now, random))
    /\ \A e \in cache, f \in cache' : e.key = f.key => e = f
    /\ \A j \in Stored :
          (~puts'[j].deleted /\ cacheAt(cache', puts[j].key) # {})
              => cacheAt(cache', puts[j].key) = {StoredEntry(j)}

\* C13: every Segment Store operation on one key leaves the bundles under
\* all other keys unchanged, and between its put and its eviction the bundle
\* under a key keeps the segments, createdAt and expiresAt that its put
\* stored: no step changes the bundle under a key, and a read does not
\* extend the TTL.
C13_Frame == [][FrameStep]_vars

(***************************************************************************)
(* Chunked responses                                                       *)
(***************************************************************************)
\* the query call returned an answer longer than the chunking threshold
ChunkedAnswer ==
    /\ pc = "done"
    /\ req.tool \in {"quick_query", "deep_research"}
    /\ execResult # NoResult
    /\ execResult.kind = "returned"
    /\ needsChunking(execResult.answer, RESPONSE_CHUNK_SIZE_KB)

\* the cacheResponse call of the query call
OwnPut == CHOOSE j \in Stored : puts[j].by = req.tool

Fetched(i) == fetchChunk(cache, puts[OwnPut].key, i, <<now, now, now>>).response

\* C14: for a successful quick_query or deep_research call whose answer
\* exceeds the chunking threshold the response carries the first segment as
\* answer and chunks = {cacheKey, current: 1, total}; while the bundle is
\* unexpired fetch_chunk(cacheKey, i) returns segment i of total for every
\* i in 1..total, and the answer followed by the contents fetched for
\* i = 2..total is the engine's full answer.
C14_Redeem ==
    ChunkedAnswer =>
        LET segments == chunkResponse(execResult.answer, RESPONSE_CHUNK_SIZE_KB)
            total == Len(segments)
        IN  /\ \E j \in Stored : puts[j].by = req.tool
            /\ (toolResponse.kind = "ok" /\ toolResponse.tool = req.tool) =>
                  /\ toolResponse.answer = segments[1].content
                  /\ toolResponse.chunks =
                        [cacheKey |-> puts[OwnPut].key, current |-> 1, total |-> total]
            /\ now <= puts[OwnPut].expiresAt =>
                  /\ \A i \in 1..total :
                        /\ Fetched(i).kind = "ok"
                        /\ Fetched(i).chunk =
                              [index |-> i, total |-> total, content |-> segments[i].content]
                  /\ segments[1].content
                        \o Concat([i \in 1..(total - 1) |-> Fetched(i + 1).chunk.content])
                        = execResult.answer

(***************************************************************************)
(* Progress notifications of overlapping tools/call requests               *)
(***************************************************************************)
Started(c) == calls[c].status # "none" /\ toolExists(calls[c].tool)
InProgress(c) == calls[c].status = "running"
Supplied(c) == calls[c].progressToken # Undefined

IsPeriodic(n) == n.message.text = "progressMessages"
IsFinal(n) == n.message.text \in {"completed successfully", "failed"}

PeriodicCount(c) ==
    Cardinality({i \in 1..Len(calls[c].sent) : IsPeriodic(calls[c].sent[i])})
FinalCount(c) ==
    Cardinality({i \in 1..Len(calls[c].sent) : IsFinal(calls[c].sent[i])})

\* C15: of two overlapping tools/call requests A and B that both supplied a
\* progress token (here the tokens 1 and 2), each has its own keepalive
\* timer: while B is in progress its timer is running and every callback of
\* it has sent one periodic notification, whatever A has done.
C15_IndependentTimers ==
    \A a, b \in CallIds :
        (/\ a # b
         /\ Started(a) /\ calls[a].progressToken = NumberToken(a)
         /\ InProgress(b) /\ calls[b].progressToken = NumberToken(b))
        => /\ calls[b].interval
           /\ PeriodicCount(b) = calls[b].fires

\* C16: progress state is call-scoped: every notification sent with a call's
\* progress token (start, periodic, final) names that call's operation and
\* previews nothing but the output of that call's own subprocess.
C16_CallScoped ==
    \A c \in CallIds :
        \A i \in 1..Len(calls[c].sent) :
            LET n == calls[c].sent[i]
            IN  /\ n.progressToken = calls[c].progressToken
                /\ n.message.operation = calls[c].tool
                /\ n.message.preview \in {<<>>, outputPreview(OutputOf(c))}

\* C17: when the execution of a known tool has ended, by returning or by
\* throwing, the call's keepalive timer is cleared, no periodic notification
\* follows the end, and if a progress token was supplied exactly one final
\* notification (progress 100 of total 100) has been sent for the call.
C17_FinalNotification ==
    \A c \in CallIds :
        (calls[c].status = "done" /\ toolExists(calls[c].tool))
        => /\ ~calls[c].interval
           /\ \A i \in 1..Len(calls[c].sent) :
                  IsFinal(calls[c].sent[i]) => i = Len(calls[c].sent)
           /\ Supplied(c) =>
                  /\ FinalCount(c) = 1
                  /\ LET n == calls[c].sent[Len(calls[c].sent)]
                     IN  IsFinal(n) /\ n.progress = 100 /\ n.total = 100

\* C18: a request that carries no progress token is sent no notification of
\* any kind; a request that carries one is sent a periodic notification at
\* every keepalive interval while it is in progress.
C18_OptIn ==
    \A c \in CallIds :
        /\ ~Supplied(c) => calls[c].sent = <<>>
        /\ (Supplied(c) /\ InProgress(c)) => PeriodicCount(c) = calls[c].fires

(***************************************************************************)
(* The fallback note                                                       *)
(***************************************************************************)
FallbackNotes == {<<FALLBACK_RETRY, NL>>, <<AUTO_SELECT_RETRY, NL>>}

QuotaFailed(k) == Rejected(k) /\ QuotaPattern(procs[k].outcome.message)
LaterTierExists(k) == procs[k].tier < Len(getModelTiers(req.tool)) - 1

\* the fallback note of attempt k: delivered when k subprocesses had been
\* spawned
NoteOf(k) ==
    {n \in 1..Len(progress) :
        progress[n].message \in FallbackNotes /\ progress[n].spawned = k}

\* C19: whenever a tier attempt has failed with a quota pattern and a later
\* tier exists, a progress message mentioning the fallback has been
\* delivered to onProgress; it was delivered after the failed attempt had
\* ended and before the next tier's subprocess was started.
C19_FallbackNote ==
    /\ \A k \in Attempts : (QuotaFailed(k) /\ LaterTierExists(k)) => NoteOf(k) # {}
    /\ \A n \in 1..Len(progress) :
          LET k == progress[n].spawned
          IN  /\ k \in Attempts
              /\ procs[k].isResolved
              /\ procs[k].state \notin {"running", "spawnfailed"}
              /\ QuotaFailed(k)

\* C19 witness: both fallback notes were delivered in a call that reached
\* the third tier
C19_ThirdTierReached ==
    /\ Len(procs) = 3
    /\ QuotaFailed(1) /\ QuotaFailed(2)
    /\ NoteOf(1) # {} /\ NoteOf(2) # {}

(***************************************************************************)
(* The hard timeout of the Process Runner                                  *)
(***************************************************************************)
\* C20: executeCommand supports an optional hard timeout: when one is
\* configured and the child has not exited when it expires, the child is
\* forcibly terminated and the run rejects, so past the expiry no child is
\* still running and no run is still pending.
C20_HardTimeout ==
    (/\ run.state # "none"
     /\ run.timeout # NoTimeout
     /\ now > run.startTime + run.timeout[1])
    => /\ run.state # "running"
       /\ run.outcome # Pending

(***************************************************************************)
(* How executeCommand settles, and what it hands to onProgress             *)
(***************************************************************************)
SpawnFailed == run.state = "errored" \/ run.exitCode = LateClose.code
ClosedWith(code) == run.state = "closed" /\ run.exitCode = code
Resolved == run.outcome.settled = "resolved"
RunRejected == run.outcome.settled = "rejected"

RejectsOtherwise ==
    /\ Resolved => ClosedWith("0")
    /\ SpawnFailed => RunRejected

\* C21 as stated: executeCommand resolves iff the child closes with exit
\* code 0, and then with the child's full standard output exactly as
\* emitted; for every other exit code, null included, and for a spawn
\* failure it rejects, with the exit code and the buffered standard error
\* attached to the rejection error.
C21_Original ==
    /\ RejectsOtherwise
    /\ ClosedWith("0") => Resolved /\ run.outcome.output = run.stdout
    /\ \A code \in ExitCodes \ {"0"} :
          ClosedWith(code) =>
              /\ RunRejected
              /\ includes(run.outcome.message, <<code>>)
              /\ includes(run.outcome.message, run.stderr)

StderrAttached == IF trim(run.stderr) = <<>> THEN <<"Unknown", "error">> ELSE trim(run.stderr)

\* C21 as amended: executeCommand resolves iff the child closes with exit
\* code 0, and then with the child's standard output stripped of leading and
\* trailing whitespace; for every other exit code, null included, and for a
\* spawn failure it rejects, with the exit code and the buffered standard
\* error, stripped likewise ("Unknown error" when nothing is left), attached
\* to the rejection error.
C21_Settles ==
    /\ RejectsOtherwise
    /\ ClosedWith("0") => Resolved /\ run.outcome.output = trim(run.stdout)
    /\ \A code \in ExitCodes \ {"0"} :
          ClosedWith(code) =>
              /\ RunRejected
              /\ includes(run.outcome.message, <<code>>)
              /\ includes(run.outcome.message, StderrAttached)

\* C21 witness: a child that closed with code 0 after writing output that
\* ends in a newline
C21_ResolvedTrimmed == ClosedWith("0") /\ Resolved /\ trim(run.stdout) # run.stdout

\* C22: when onProgress is supplied each arriving stdout chunk triggers one
\* onProgress call carrying only the newly arrived text, so the
\* concatenation of all onProgress arguments in call order is the standard
\* output accumulated so far; standard error is never passed to onProgress.
C22_Incremental ==
    /\ run.onProgress =>
          /\ Concat(run.reported) = run.stdout
          /\ \A i \in 1..Len(run.reported) :
                run.reported[i] \in StdoutData /\ run.reported[i] \notin StderrData
    /\ ~run.onProgress => run.reported = <<>>

\* C22 witness: two stdout chunks have arrived at a run with onProgress
C22_TwoChunks == run.onProgress /\ Len(run.reported) = 2 /\ run.state = "running"

(***************************************************************************)
(* Credentials in error text                                               *)
(***************************************************************************)
\* the text holds a substring that the redaction filter would mask
CredentialLike(text) == sanitize(text) # text

\* C23: no error text surfaced to a caller, neither the message with which
\* executeCommand or executeGeminiCLI rejects nor the error.message of a
\* tool's error response, holds a credential-like substring of the
\* subprocess's standard error.
C23_Redacted ==
    /\ \A k \in Attempts : Rejected(k) => ~CredentialLike(procs[k].outcome.message)
    /\ execResult # NoResult /\ execResult.kind = "threw"
          => ~CredentialLike(execResult.message)
    /\ toolResponse # NoResult /\ toolResponse.kind = "error"
          => ~CredentialLike(toolResponse.message)

(***************************************************************************)
(* The error contract of tools/call                                        *)
(***************************************************************************)
Answered(c) == calls[c].status = "done" /\ toolExists(calls[c].tool)

\* C24: every failed tool call is reported both with isError = true and with
\* a JSON error object as the text content, whichever layer detected the
\* failure; a call reported with isError = false carries no error object.
C24_ErrorContract ==
    \A c \in CallIds :
        Answered(c) =>
            (calls[c].result.isError <=> calls[c].result.text.kind = "error")

(***************************************************************************)
(* The error codes of fetch_chunk                                          *)
(***************************************************************************)
\* the bundles under the key that have not expired at time t
PresentAt(key, t) == {e \in cache : e.key = key /\ t <= e.expiresAt}

IsError(response, code) == response.kind = "error" /\ response.code = code

\* a fetch_chunk(key, chunkIndex) step answers as the claim says
FetchAnswer(key, chunkIndex) ==
    LET present == PresentAt(key, now)
        response == toolResponse'
    IN  /\ present = {} => IsError(response, CACHE_EXPIRED)
        /\ IsError(response, CACHE_EXPIRED) => PresentAt(key, now') = {}
        /\ IsError(response, INVALID_CHUNK_INDEX) <=>
              \E e \in present : chunkIndex > Len(e.chunks)
        /\ response.kind = "error" =>
              response.code \in {CACHE_EXPIRED, INVALID_CHUNK_INDEX}
        /\ response.kind = "ok" =>
              \E e \in present :
                  /\ chunkIndex <= Len(e.chunks)
                  /\ response.chunk = [index |-> chunkIndex, total |-> Len(e.chunks),
                                       content |-> e.chunks[chunkIndex].content]

FetchStep ==
    \A key \in FetchKeys \ {<<>>}, chunkIndex \in ChunkIndexes \ {0} :
        FetchChunk(key, chunkIndex) => FetchAnswer(key, chunkIndex)

\* C25: fetch_chunk with a non-empty key and a positive index returns
\* CACHE_EXPIRED iff the bundle is absent or expired, INVALID_CHUNK_INDEX iff
\* the bundle is present and the index exceeds its segment count, and the
\* requested segment otherwise; no other error code results, whenever the
\* bundle expires relative to the call.
C25_FetchCodes == [][FetchStep]_vars

(***************************************************************************)
(* getChunk                                                                *)
(***************************************************************************)
\* C26: getChunk(key, index) returns the stored segment whose 1-based
\* position is index when the bundle is present and 1 <= index <=
\* totalCount, and returns null when the bundle was never stored, was
\* evicted or has expired, or when index lies outside [1, totalCount].
C26_GetChunk ==
    \A key \in ReadKeys, chunkIndex \in ChunkIndexes :
        LET chunk == getChunk(cache, key, chunkIndex, now).value
            present == PresentAt(key, now)
        IN  IF \E e \in present : chunkIndex \in 1..Len(e.chunks)
            THEN \E e \in present : chunk = e.chunks[chunkIndex]
            ELSE chunk = NoResult

\* C26 witness: the store holds an unexpired bundle of two segments and a
\* bundle that has expired, and there is a key with nothing stored under it
C26_MixedStore ==
    /\ \E e \in cache : now <= e.expiresAt /\ Len(e.chunks) = 2
    /\ \E e \in cache : now > e.expiresAt
    /\ \E key \in ReadKeys : cacheAt(cache, key) = {}

(***************************************************************************)
(* The background sweep                                                    *)
(***************************************************************************)
\* C27: in every reachable state of the Segment Store at most one sweep
\* timer is active, and one is active whenever the store holds a bundle:
\* cacheResponse starts a sweep timer only if none is active.
C27_OneSweep ==
    /\ cleanupTimer.timers <= 1
    /\ cleanupTimer.active <=> cleanupTimer.timers = 1
    /\ cache # {} => cleanupTimer.timers = 1

\* C27 witness: a second bundle was stored while the sweep was active
C27_SecondPut ==
    /\ Len(puts) = 2
    /\ Cardinality(cache) = 2
    /\ cleanupTimer.active

SweepStep ==
    CleanupTick =>
        IF cache' = {}
        THEN ~cleanupTimer'.active /\ cleanupTimer'.timers = 0
        ELSE cleanupTimer'.active /\ cleanupTimer'.due > now

PutStep ==
    Len(puts') > Len(puts) =>
        /\ cleanupTimer'.active
        /\ cleanupTimer'.timers = 1
        /\ ~cleanupTimer.active => cleanupTimer'.due = now + CLEANUP_INTERVAL_MS

\* C28: the sweep deactivates itself when the store has become empty and is
\* reactivated by the next put: a tick of the sweep that leaves the store
\* empty stops the timer, and the first cacheResponse after a deactivation
\* starts a sweep timer again.
C28_SweepLifecycle == [][SweepStep /\ PutStep]_vars

\* C28 witness: bundles were stored, the store is empty again and the sweep
\* has stopped
C28_Deactivated == puts # <<>> /\ cache = {} /\ ~cleanupTimer.active

\* C29: the lazy expiry check on read and the periodic sweep apply the same
\* expiry test: for every stored bundle and every time, getResponse treats
\* the bundle as expired iff clearExpired run at that time would remove it.
C29_SameExpiryTest ==
    \A e \in cache, t \in 0..MaxTime :
        (getResponse(cache, e.key, t).value = NoResult) <=> (e \notin clearExpired(cache, t))

\* C29 witness: a bundle is read at the very tick of its expiresAt
C29_AtExpiry == \E e \in cache : now = e.expiresAt

(***************************************************************************)
(* The configured chunk size                                               *)
(***************************************************************************)
\* the override when it is set to a positive integer, 10 otherwise
ConfiguredKB ==
    CASE env = <<"1">> -> 1
      [] env = <<"2">> -> 2
      [] OTHER -> 10

\* C30: the chunking threshold and the segment target size that quick_query
\* and deep_research apply to an engine answer are the configured override
\* RESPONSE_CHUNK_SIZE_KB when it is set to a positive integer k (the answer
\* is chunked iff it is longer than k KB, into segments of target size k
\* KB), and 10 KB when the override is unset or invalid.
C30_ConfiguredChunkSize ==
    (/\ pc = "done"
     /\ req.tool \in {"quick_query", "deep_research"}
     /\ execResult # NoResult
     /\ execResult.kind = "returned")
    => LET segments == chunkResponse(execResult.answer, ConfiguredKB)
       IN  IF Len(execResult.answer) > ConfiguredKB * BytesPerKB
           THEN /\ toolResponse.chunks # NoResult
                /\ toolResponse.chunks.total = Len(segments)
                /\ toolResponse.answer = segments[1].content
           ELSE /\ toolResponse.chunks = NoResult
                /\ toolResponse.answer = execResult.answer

(***************************************************************************)
(* checkPromptPathsValid                                                   *)
(***************************************************************************)
\* the verdict of validatePath on the k-th reference of the checked prompt
Verdict(k) == validatePath(extractAtPathReferences(cpPrompt)[k], vpRoot, cpOnDisk)
RefCount == Len(extractAtPathReferences(cpPrompt))
Disallowed == {k \in 1..RefCount : ~Verdict(k).allowed}
\* the position in the prompt of the j-th disallowed reference
NthDisallowed(j) ==
    CHOOSE k \in Disallowed : Cardinality({m \in Disallowed : m <= k}) = j

\* C31: checkPromptPathsValid(prompt, root).isValid is true iff every
\* reference extracted from the prompt is allowed (an allowed reference that
\* does not exist does not make the batch invalid, a prompt without
\* references is valid), and invalidPaths holds exactly the verdicts with
\* allowed = false, in order of appearance in the prompt.
C31_BatchVerdict ==
    cpCheck # NoResult
    => /\ cpCheck.isValid <=> (\A k \in 1..RefCount : Verdict(k).allowed)
       /\ Len(cpCheck.invalidPaths) = Cardinality(Disallowed)
       /\ \A j \in 1..Cardinality(Disallowed) :
              cpCheck.invalidPaths[j] = Verdict(NthDisallowed(j))

\* C31 witness: a prompt with two different references, both disallowed,
\* has been checked
C31_TwoDisallowed ==
    /\ cpCheck # NoResult
    /\ Len(cpCheck.invalidPaths) = 2
    /\ cpCheck.invalidPaths[1].input # cpCheck.invalidPaths[2].input

(***************************************************************************)
(* validatePath: the reason                                                *)
(***************************************************************************)
\* the raw input has two dots in a row
HasDotDot(raw) == \E k \in 1..(Len(raw) - 1) : raw[k] = "." /\ raw[k + 1] = "."

\* C32: validatePath reports a disallowed path as data: its exists is false
\* and its reason is the parent-traversal reason iff the raw input contains
\* the text "..", the outside-root reason otherwise; for an allowed path the
\* reason is "does not exist" iff the existence check failed, and no reason
\* is set when the path exists.
C32_Reason ==
    vpResult # NoResult
    => /\ vpResult.input = vpInput
       /\ vpResult.allowed \in BOOLEAN
       /\ IF ~vpResult.allowed
          THEN /\ ~vpResult.exists
               /\ vpResult.reason = IF HasDotDot(vpInput) THEN ReasonTraversal
                                    ELSE ReasonOutside
          ELSE /\ (vpResult.reason = ReasonMissing) <=> ~vpResult.exists
               /\ vpResult.exists => vpResult.reason = NoReason

\* C32 witness: a path with two dots in a row in it was validated and found
\* disallowed
C32_TraversalReported ==
    /\ vpResult # NoResult
    /\ ~vpResult.allowed
    /\ HasDotDot(vpInput)

(***************************************************************************)
(* chunkResponse: short texts, numbering, cut points                       *)
(***************************************************************************)
TargetSize == crSizeKB * BytesPerKB

\* C33: for every text whose length is at most the target size, the empty
\* string and a text of exactly the target size included, chunkResponse
\* returns exactly one segment {index: 1, total: 1} whose content is the
\* whole text.
C33_SingleSegment ==
    (Chunked /\ Len(crText) <= TargetSize)
    => crChunks = <<[content |-> crText, index |-> 1, total |-> 1]>>

\* C33 witness: a text of exactly the target size has been chunked
C33_ExactlyTarget == Chunked /\ Len(crText) = TargetSize

\* the characters of the text before the j-th segment
RECURSIVE Offset(_)
Offset(j) == IF j = 1 THEN 0 ELSE Offset(j - 1) + Len(crChunks[j - 1].content)

\* C34: in every result of chunkResponse the segments are numbered
\* consecutively from 1 in text order (the j-th segment has index j and
\* holds the j-th stretch of the text) and every segment's total equals the
\* number of segments returned.
C34_Numbering ==
    Chunked
    => \A j \in 1..Len(crChunks) :
           /\ crChunks[j].index = j
           /\ crChunks[j].total = Len(crChunks)
           /\ crChunks[j].content =
                  SubSeq(crText, Offset(j) + 1, Offset(j) + Len(crChunks[j].content))

\* C34 witness: a text has been cut into three segments or more
C34_ThreeSegments == Chunked /\ Len(crChunks) >= 3

(***************************************************************************)
(* The sweep removes what has expired                                      *)
(***************************************************************************)
\* no bundle is kept more than one sweep interval past its expiry, and
\* while an expired bundle is kept a sweep is due within that interval
Retention ==
    \A e \in cache :
        /\ now <= e.expiresAt + CLEANUP_INTERVAL_MS
        /\ now > e.expiresAt
           => /\ cleanupTimer.active
              /\ cleanupTimer.due <= e.expiresAt + CLEANUP_INTERVAL_MS

\* a tick of the sweep leaves no expired bundle behind
SweepRemoves == CleanupTick => \A e \in cache' : ~(now > e.expiresAt)

\* C35: every stored bundle is removed after its expiry time has passed,
\* whether or not its key is read again: the first sweep tick after the
\* expiry removes it, so no expired bundle is retained for more than one
\* sweep interval.
C35_SweptAfterExpiry == []Retention /\ [][SweepRemoves]_vars

\* C35 witness: a bundle that nobody deleted has expired and is gone, and
\* the sweep has run and stopped
C35_ExpiredAndGone ==
    /\ ~cleanupTimer.active
    /\ \E j \in 1..Len(puts) :
           /\ ~puts[j].deleted
           /\ now > puts[j].expiresAt
           /\ cacheAt(cache, puts[j].key) = {}

(***************************************************************************)
(* executeCommand settles once                                             *)
(***************************************************************************)
Settled == run.outcome # Pending
EventStep == EmitError \/ \E code \in ExitCodes \cup {LateClose.code} : EmitClose(code)

\* resolve or reject has been called exactly when the promise is settled,
\* and never twice
SettledByOneCall ==
    /\ run.settleCalls <= 1
    /\ Settled <=> run.settleCalls = 1

\* the first event settles the promise and no later step changes the outcome
FirstEventSettles ==
    /\ (EventStep /\ ~Settled) => (run'.outcome # Pending /\ run'.settleCalls = 1)
    /\ Settled => (run'.outcome = run.outcome /\ run'.settleCalls = run.settleCalls)
    /\ (~EventStep /\ ~Settled) => run'.outcome = Pending

\* C36: for every run of executeCommand, whatever the order and number of
\* 'error' and 'close' events the child delivers, the promise is settled
\* exactly once, by the first such event; every later event leaves the
\* outcome unchanged.
C36_SettledOnce == []SettledByOneCall /\ [][FirstEventSettles]_vars

\* C36 witness: the run resolved on a 'close' with code 0, and an 'error'
\* event came after it
C36_ErrorAfterClose ==
    /\ run.outcome.settled = "resolved"
    /\ run.exitCode = "0"
    /\ run.state = "errored"

(***************************************************************************)
(* executeGeminiCLI ends                                                   *)
(***************************************************************************)
\* executeGeminiCLI has been called
CliCalled == finalPrompt # <<>>
CliEnded == execResult # NoResult

\* between one and three subprocesses, and a result only as the end of a call
Invocations ==
    /\ CliCalled => (Len(procs) >= 1 /\ Len(procs) <= 3)
    /\ ~CliCalled => (procs = <<>> /\ ~CliEnded)
    /\ CliEnded => (execResult.kind \in {"returned", "threw"} /\ pc = "done")
    /\ (CliCalled /\ pc = "done") => CliEnded

\* a result, once produced, is the result
ResultOnce == CliEnded => execResult' = execResult

\* C37: assuming every subprocess invocation eventually settles, every
\* executeGeminiCLI call eventually either returns a result or throws, after
\* at least one and at most three subprocess invocations; it produces a
\* result at most once and never both returns and throws.
C37_Terminates ==
    /\ []Invocations
    /\ [][ResultOnce]_vars
    /\ (CliCalled ~> CliEnded)

\* C37 witness: a call has returned a result from its third subprocess
C37_ReturnedFromThird ==
    /\ pc = "done"
    /\ Len(procs) = 3
    /\ execResult # NoResult
    /\ execResult.kind = "returned"

(***************************************************************************)
(* chunkResponse: where a segment ends                                     *)
(***************************************************************************)
\* the cut point of the j-th segment: one target size after its start
CutPoint(j) == Offset(j) + TargetSize

\* the newlines among the NewlineWindow characters before the cut point of
\* the j-th segment, as 0-based positions in the text, none before the
\* start of the segment
WindowNewlines(j) ==
    {i \in Max(Offset(j), CutPoint(j) - NewlineWindow)..(CutPoint(j) - 1) :
        i < Len(crText) /\ crText[i + 1] = NL}

LastOf(positions) == CHOOSE i \in positions : \A m \in positions : m <= i

\* C38: for every cut that is not the end of the text, chunkResponse ends
\* the segment immediately after the last newline found within the window
\* (500 characters in the code) before the cut point when such a newline
\* exists, and cuts at exactly the target size when no newline lies in that
\* window.
C38_CutPoints ==
    Chunked
    => \A j \in 1..(Len(crChunks) - 1) :
           Offset(j + 1) = IF WindowNewlines(j) # {}
                           THEN LastOf(WindowNewlines(j)) + 1
                           ELSE CutPoint(j)

\* C39: needsChunking and chunkResponse agree for the same size: for every
\* text, needsChunking(text, size) is true iff chunkResponse(text, size)
\* returns more than one segment, so that chunks metadata and a cache key
\* are handed out, and a bundle is stored, only when there is a second
\* segment to fetch.
C39_Agree == Chunked => (needsChunking(crText, crSizeKB) <=> Len(crChunks) > 1)

(***************************************************************************)
(* chunkResponse: the cut loop ends                                        *)
(***************************************************************************)
\* an iteration moves currentPosition on by one character at least, and not
\* past the end of the text
Advances ==
    CutIteration => (crPosition' >= crPosition + 1 /\ crPosition' <= Len(crText))

\* no segment pushed by the loop is empty, and the loop returns what it pushed
NonEmptySegments ==
    /\ \A j \in 1..Len(crPushed) : Len(crPushed[j].content) >= 1
    /\ (crPhase = "returned" /\ Len(crText) > TargetSize)
       => /\ Len(crChunks) = Len(crPushed)
          /\ \A j \in 1..Len(crChunks) : Len(crChunks[j].content) >= 1

\* C40: chunkResponse terminates for every text and every positive target
\* size, and when the text is longer than the target size every segment it
\* returns is non-empty: each iteration of the cut loop advances the
\* position by at least one character.
C40_Terminates ==
    /\ [][Advances]_vars
    /\ []NonEmptySegments
    /\ <>(crPhase = "returned")

\* C40 witness: the loop has run three times or more and chunkResponse has
\* returned
C40_LoopReturned == crPhase = "returned" /\ Len(crPushed) >= 3

\* the loop taken step by step returns what chunkResponse returns
LoopIsChunkResponse == crPhase = "returned" => crChunks = chunkResponse(crText, crSizeKB)

====
